---- MODULE Spec2Model ----
(***************************************************************************)
(* Phase-task synchronizer of the TrayFlow production planner              *)
(* (src/src/utils/sort.ts, syncPhaseTasksRange) together with the storage  *)
(* operations and the page code that call it.                              *)
(*                                                                         *)
(* Calendar days ("YYYY-MM-DD" strings in the source) are represented by   *)
(* their day number: the zero-padded strings compare lexicographically     *)
(* exactly as the day numbers compare, and addDaysYMD moves by whole UTC   *)
(* days.  A nullable column is a sequence of length 0 (null) or 1.         *)
(***************************************************************************)
EXTENDS Integers, Sequences, FiniteSets, Bags, TLC

(* ------------------------------ bounds -------------------------------- *)

\* last calendar day of the modelled horizon (days are 0..MaxDate)
MaxDate == 2
\* longest window a modelled syncRange call asks for
MaxDays == 2
\* largest tray quantity of an order
MaxQty == 1
\* number of order mutations (create, edit, status change, delete) in a run
MaxOrderOps == 1
\* number of syncRange calls started in a run
MaxCalls == 2
\* number of task-board / new-task operations in a run
MaxTaskOps == 1
\* most orders the order screens of a run keep in the table
MaxOrders == 2
\* largest number of days a date calculation adds or subtracts
MaxShift == 31

Null == <<>>

Range(seq) == {seq[i] : i \in 1..Len(seq)}
Some(x) == <<x>>

Procs == {1, 2}
OrderIdSeq == <<"o1", "o2", "o3">>
OrderIds == {OrderIdSeq[i] : i \in 1..Len(OrderIdSeq)}
Dates == 0..MaxDate
\* the days a modelled syncRange call starts at
StartDates == 0..(MaxDate - 1)
\* the lengths a modelled syncRange call asks for, a negative one included
CallDays == (0 - 1)..MaxDays

(* ------------------------ reference data ------------------------------ *)

\* rows of the varieties table that the orders query joins
\*   varieties ( id, variety, soak_hours, blackout_days, harvest_days )
VarietiesTable ==
  [ v1 |-> [variety |-> Some("Pea"),   soak_hours |-> Some(12),
            blackout_days |-> Some(1), harvest_days |-> Some(2)],
    v2 |-> [variety |-> Some("Basil"), soak_hours |-> Some(0),
            blackout_days |-> Some(0), harvest_days |-> Some(1)],
    v3 |-> [variety |-> Null,          soak_hours |-> Null,
            blackout_days |-> Null,    harvest_days |-> Null],
    \* the two Pea rows of the worked example of the specification
    v4 |-> [variety |-> Some("Pea"),   soak_hours |-> Some(12),
            blackout_days |-> Some(3), harvest_days |-> Some(8)],
    v5 |-> [variety |-> Some("Pea"),   soak_hours |-> Some(0),
            blackout_days |-> Some(3), harvest_days |-> Some(8)],
    v6 |-> [variety |-> Some("Zinnia"),   soak_hours |-> Some(0),
            blackout_days |-> Some(0), harvest_days |-> Some(1)],
    v7 |-> [variety |-> Some("Amaranth"), soak_hours |-> Some(0),
            blackout_days |-> Some(0), harvest_days |-> Some(1)] ]

\* rows of the customers table:  customers ( id, name )
CustomersTable ==
  [ c1 |-> [name |-> Some("Cafe B")],
    c2 |-> [name |-> Some("Farm C")] ]

\* a.localeCompare(b) on the names that occur, as the rank in sorted order
NameOrder == <<"Amaranth", "Basil", "Cafe B", "Customer", "Farm C", "Pea", "Variety", "Zinnia">>

NameRank(s) == CHOOSE i \in 1..Len(NameOrder) : NameOrder[i] = s

(* --------------------------- calendar -------------------------------- *)

\* Number(x || 0) / Number(x ?? 0) on a nullable number
\* variant: a missing number counts as 1
NumberOr1(m) == IF m = Null THEN 1 ELSE m[1]

NumberOr0(m) == IF m = Null THEN 0 ELSE m[1]

addDaysYMD(ymd, days) == ymd + days

subtractDaysYMD(ymd, days) == addDaysYMD(ymd, 0 - days)

\* variant: the window is never shorter than one day
Max0AtLeastOne(n) == IF n > 0 THEN n ELSE 1

Max0(n) == IF n > 0 THEN n ELSE 0

listDates(startYMD, days) == [i \in 1..Max0(days) |-> addDaysYMD(startYMD, i - 1)]

(* ----------------------------- phases -------------------------------- *)

\* In string literals the em dash of the source is written "--".

PHASE_ORDER == <<"soak", "sow", "spray", "lights_on", "water", "harvest", "deliver">>

Phases == {PHASE_ORDER[i] : i \in 1..Len(PHASE_ORDER)}

phaseSummaryTitle(key) ==
  CASE key = "soak"      -> "Soak (12h)"
    [] key = "sow"       -> "Sow + Stack (Blackout)"
    [] key = "spray"     -> "Spray (Blackout) -- AM/PM as needed"
    [] key = "lights_on" -> "Lights On (Unstack + First Water)"
    [] key = "water"     -> "Water (Lights On) -- AM/PM as needed"
    [] key = "harvest"   -> "Harvest"
    [] key = "deliver"   -> "Deliver"
    [] OTHER             -> "Task"

\* variant: the phase name itself is the task type
taskTypeForPhaseSameName(phase) == phase

taskTypeForPhase(phase) ==
  CASE phase = "sow"       -> "sow"
    [] phase = "spray"     -> "spray"
    [] phase = "lights_on" -> "lights_on"
    [] phase = "water"     -> "water"
    [] phase = "harvest"   -> "harvest"
    [] phase = "deliver"   -> "delivery"
    [] OTHER               -> "other"

\* variant: the key leaves out the due date
makeGeneratorKeyNoDate(due, phase, kind) == <<"phase", phase, kind>>

\* variant: the key leaves out the summary/detail discriminator
makeGeneratorKeyNoKind(due, phase, kind) == <<"phase", due, phase>>

makeGeneratorKey(due, phase, kind) == <<"phase", due, phase, kind>>

\* `${variety} -> ${customer}`: the pair of names
groupKey(variety, customer) == <<variety, customer>>

(* ------------------------ aggregation maps ---------------------------- *)

\* A Map<string, number> is a function from its keys to quantities.  Every
\* label is a sequence of names: <<name>> for a variety or a customer,
\* <<variety, customer>> for a groupKey.
EmptyMap == [k \in {} |-> 0]

MapGet0(map, key) == IF key \in DOMAIN map THEN map[key] ELSE 0

\* variant: map.set(key, qty), the quantity stored before is lost
addToMapOverwrite(map, key, qty) ==
  [k \in (DOMAIN map) \cup {key} |-> IF k = key THEN qty ELSE map[k]]

addToMap(map, key, qty) ==
  [k \in (DOMAIN map) \cup {key} |-> MapGet0(map, k) + (IF k = key THEN qty ELSE 0)]

\* a.label.localeCompare(b.label) < 0
RECURSIVE LabelLess(_, _)
LabelLess(a, b) ==
  IF a = <<>> THEN b # <<>>
  ELSE IF b = <<>> THEN FALSE
  ELSE IF Head(a) = Head(b) THEN LabelLess(Tail(a), Tail(b))
  ELSE NameRank(Head(a)) < NameRank(Head(b))

\* variant: b.label.localeCompare(a.label) breaks the ties
EntryBeforeTiesDescending(a, b) ==
  \/ a.qty > b.qty
  \/ a.qty = b.qty /\ LabelLess(b.label, a.label)

\* the comparator  b.qty - a.qty || a.label.localeCompare(b.label)
EntryBefore(a, b) ==
  \/ a.qty > b.qty
  \/ a.qty = b.qty /\ LabelLess(a.label, b.label)

RECURSIVE SortEntries(_)
SortEntries(S) ==
  IF S = {} THEN <<>>
  ELSE LET first == CHOOSE a \in S : \A b \in S \ {a} : EntryBefore(a, b)
       IN  <<first>> \o SortEntries(S \ {first})

sortedEntries(map) ==
  SortEntries({[label |-> k, qty |-> map[k]] : k \in DOMAIN map})

PhaseMaps == [ph \in Phases |-> EmptyMap]

EmptyBucket == [summary |-> PhaseMaps, detail |-> PhaseMaps, deliverBreakdown |-> EmptyMap]

\* ensureDay(d) followed by a read of the bucket
BucketOf(byDay, d) == IF d \in DOMAIN byDay THEN byDay[d] ELSE EmptyBucket

SetBucket(byDay, d, b) ==
  [x \in (DOMAIN byDay) \cup {d} |-> IF x = d THEN b ELSE byDay[x]]

\* the paired calls
\*   addToMap(ensureDay(d).summary[phase], variety, qty);
\*   addToMap(ensureDay(d).detail[phase], detailKey, qty);
AddPhase(byDay, d, phase, sumKey, detKey, qty) ==
  LET b == BucketOf(byDay, d)
  IN  SetBucket(byDay, d,
        [b EXCEPT !.summary[phase] = addToMap(@, sumKey, qty),
                  !.detail[phase]  = addToMap(@, detKey, qty)])

\* variant: m.set(variety, trays), the breakdown keeps the last order only
addDeliveryBreakdownOverwrite(byDay, due, customer, variety, trays) ==
  LET b == BucketOf(byDay, due)
      m == IF <<customer>> \in DOMAIN b.deliverBreakdown
           THEN b.deliverBreakdown[<<customer>>] ELSE EmptyMap
  IN  SetBucket(byDay, due,
        [b EXCEPT !.summary["deliver"] = addToMap(@, <<customer>>, trays),
                  !.detail["deliver"]  = addToMap(@, <<customer>>, trays),
                  !.deliverBreakdown   =
                      [c \in (DOMAIN @) \cup {<<customer>>} |->
                          IF c = <<customer>> THEN addToMapOverwrite(m, <<variety>>, trays)
                          ELSE @[c]]])

addDelivery(byDay, due, customer, variety, trays) ==
  LET b == BucketOf(byDay, due)
      m == IF <<customer>> \in DOMAIN b.deliverBreakdown
           THEN b.deliverBreakdown[<<customer>>] ELSE EmptyMap
  IN  SetBucket(byDay, due,
        [b EXCEPT !.summary["deliver"] = addToMap(@, <<customer>>, trays),
                  !.detail["deliver"]  = addToMap(@, <<customer>>, trays),
                  !.deliverBreakdown   =
                      [c \in (DOMAIN @) \cup {<<customer>>} |->
                          IF c = <<customer>> THEN addToMap(m, <<variety>>, trays)
                          ELSE @[c]]])

\* variant: the last day of the range is left out
AddOnDatesOpenEnd(byDay, dates, lo, hi, phase, sumKey, detKey, qty) ==
  LET hits == {d \in Range(dates) : d >= lo /\ d < hi}
  IN  [d \in (DOMAIN byDay) \cup hits |->
         IF d \in hits
         THEN [BucketOf(byDay, d) EXCEPT !.summary[phase] = addToMap(@, sumKey, qty),
                                         !.detail[phase]  = addToMap(@, detKey, qty)]
         ELSE byDay[d]]

\* for (const d of dates) if (d >= lo && d <= hi) { the paired calls }
\* (the dates of a window are distinct, so every day is visited once)
AddOnDates(byDay, dates, lo, hi, phase, sumKey, detKey, qty) ==
  LET hits == {d \in Range(dates) : d >= lo /\ d <= hi}
  IN  [d \in (DOMAIN byDay) \cup hits |->
         IF d \in hits
         THEN [BucketOf(byDay, d) EXCEPT !.summary[phase] = addToMap(@, sumKey, qty),
                                         !.detail[phase]  = addToMap(@, detKey, qty)]
         ELSE byDay[d]]

(* --------------------------- order rows ------------------------------ *)

\* the joined row returned by the orders query
JoinOrder(id, r) ==
  [id |-> id, quantity |-> r.quantity, delivery_date |-> r.delivery_date,
   status |-> r.status,
   customers |-> IF r.customer_id = Null THEN Null
                 ELSE Some(CustomersTable[r.customer_id[1]]),
   varieties |-> IF r.variety_id = Null THEN Null
                 ELSE Some(VarietiesTable[r.variety_id[1]])]

\* x ?? dflt on a nullable value
OrElse(m, dflt) == IF m = Null THEN dflt ELSE m[1]

\* orderRows = (orders ?? []).map(...)
MapOrderRow(o) ==
  [id           |-> o.id,
   qty          |-> NumberOr0(o.quantity),
   deliveryDate |-> o.delivery_date,
   status       |-> o.status,
   varietyName  |-> IF o.varieties = Null THEN "Variety"
                    ELSE OrElse(o.varieties[1].variety, "Variety"),
   soakHours    |-> IF o.varieties = Null THEN 0 ELSE NumberOr0(o.varieties[1].soak_hours),
   blackoutDays |-> IF o.varieties = Null THEN 0 ELSE NumberOr0(o.varieties[1].blackout_days),
   harvestDays  |-> IF o.varieties = Null THEN 0 ELSE NumberOr0(o.varieties[1].harvest_days),
   customerName |-> IF o.customers = Null THEN "Customer"
                    ELSE OrElse(o.customers[1].name, "Customer")]

(* ------------------------- order projector --------------------------- *)

\* variant: the harvest days are not subtracted
sowDateOfDelivery(o) == o.deliveryDate

sowDateOf(o) ==
  IF o.harvestDays > 0 THEN subtractDaysYMD(o.deliveryDate, o.harvestDays) ELSE o.deliveryDate

\* variant: harvest on the delivery date
harvestDateOfDelivery(o) == o.deliveryDate

harvestDateOf(o) == subtractDaysYMD(o.deliveryDate, 1)

\* variant: the blackout days are not added
lightsOnDateOfSow(o) == sowDateOf(o)

\* variant: the lights go on on the last day of the blackout
lightsOnDateOfBlackoutEnd(o) ==
  IF o.blackoutDays > 0 THEN addDaysYMD(sowDateOf(o), o.blackoutDays - 1) ELSE sowDateOf(o)

lightsOnDateOf(o) ==
  IF o.blackoutDays > 0 THEN addDaysYMD(sowDateOf(o), o.blackoutDays) ELSE sowDateOf(o)

\* variant: packed orders are projected like any other order
packedOnlyDeliveryNever(o) == FALSE

packedOnlyDelivery(o) == o.status = "packed"

\* variant: the first day of the window is left out
InWindowAfterStart(d, start, end) == d > start /\ d <= end

InWindow(d, start, end) == d >= start /\ d <= end

\* body of  if (!packedOnlyDelivery) { ... }
AddGrowPhases(byDay, o, dates, start, end) ==
  LET sowDate      == sowDateOf(o)
      harvestDate  == harvestDateOf(o)
      lightsOnDate == lightsOnDateOf(o)
      variety      == <<o.varietyName>>
      detailKey    == groupKey(o.varietyName, o.customerName)
      b1 == IF o.soakHours > 0 /\ InWindow(sowDate, start, end)
            THEN AddPhase(byDay, sowDate, "soak", variety, detailKey, o.qty)
            ELSE byDay
      b2 == IF InWindow(sowDate, start, end)
            THEN AddPhase(b1, sowDate, "sow", variety, detailKey, o.qty)
            ELSE b1
      b3 == IF o.blackoutDays > 0
            THEN AddOnDates(b2, dates, sowDate, addDaysYMD(sowDate, o.blackoutDays - 1),
                            "spray", variety, detailKey, o.qty)
            ELSE b2
      b4 == IF InWindow(lightsOnDate, start, end) /\ lightsOnDate <= harvestDate
            THEN AddPhase(b3, lightsOnDate, "lights_on", variety, detailKey, o.qty)
            ELSE b3
      b5 == AddOnDates(b4, dates, lightsOnDate, harvestDate,
                       "water", variety, detailKey, o.qty)
      b6 == IF InWindow(harvestDate, start, end)
            THEN AddPhase(b5, harvestDate, "harvest", variety, detailKey, o.qty)
            ELSE b5
  IN  b6

\* one iteration of  for (const o of orderRows) { ... }
ApplyOrder(byDay, o, dates, start, end) ==
  LET grown == IF ~packedOnlyDelivery(o)
               THEN AddGrowPhases(byDay, o, dates, start, end)
               ELSE byDay
  IN  IF InWindow(o.deliveryDate, start, end)
      THEN addDelivery(grown, o.deliveryDate, o.customerName, o.varietyName, o.qty)
      ELSE grown

RECURSIVE FoldOrders(_, _, _, _, _, _)
FoldOrders(byDay, orderRows, i, dates, start, end) ==
  IF i > Len(orderRows) THEN byDay
  ELSE FoldOrders(ApplyOrder(byDay, orderRows[i], dates, start, end),
                  orderRows, i + 1, dates, start, end)

\* byDay after the order loop
Aggregate(orderRows, dates) ==
  FoldOrders(EmptyMap, orderRows, 1, dates, dates[1], dates[Len(dates)])

(* --------------------------- task rows ------------------------------- *)

\* `${x.label} x${x.qty}` joined by ", "
RenderItems(entries) == [i \in 1..Len(entries) |-> <<entries[i].label, "x", entries[i].qty>>]

\* `${c.label} -- ${c.qty} trays (${parts})` joined by " * "
RenderCustomers(bucket) ==
  LET customers == sortedEntries(bucket.detail["deliver"])
      partsOf(c) == IF c \in DOMAIN bucket.deliverBreakdown
                    THEN RenderItems(sortedEntries(bucket.deliverBreakdown[c]))
                    ELSE <<>>
  IN  [i \in 1..Len(customers) |->
         <<customers[i].label, "--", customers[i].qty, "trays", partsOf(customers[i].label)>>]

detailTextOf(bucket, phase) ==
  IF phase = "deliver" THEN RenderCustomers(bucket)
  ELSE RenderItems(sortedEntries(bucket.detail[phase]))

SummaryRow(d, phase) ==
  [title         |-> <<"SYS:", phaseSummaryTitle(phase)>>,
   due_date      |-> d,
   status        |-> "planned",
   order_id      |-> Null,
   task_type     |-> taskTypeForPhase(phase),
   source        |-> "generated",
   phase         |-> phase,
   generator_key |-> makeGeneratorKey(d, phase, "summary")]

DetailRow(d, phase, detailText) ==
  [title         |-> <<"SYS:DETAIL:", phaseSummaryTitle(phase), "--", detailText>>,
   due_date      |-> d,
   status        |-> "planned",
   order_id      |-> Null,
   task_type     |-> taskTypeForPhase(phase),
   source        |-> "generated",
   phase         |-> phase,
   generator_key |-> makeGeneratorKey(d, phase, "detail")]

\* if (!sumMap || sumMap.size === 0) continue;
SkipPhase(bucket, phase) == DOMAIN bucket.summary[phase] = {}

\* variant: the detail row is not pushed
RECURSIVE RowsOfDaySummaryOnly(_, _, _)
RowsOfDaySummaryOnly(bucket, d, i) ==
  IF i > Len(PHASE_ORDER) THEN <<>>
  ELSE (IF SkipPhase(bucket, PHASE_ORDER[i]) THEN <<>>
        ELSE << SummaryRow(d, PHASE_ORDER[i]) >>)
       \o RowsOfDaySummaryOnly(bucket, d, i + 1)

RECURSIVE RowsOfDay(_, _, _)
RowsOfDay(bucket, d, i) ==
  IF i > Len(PHASE_ORDER) THEN <<>>
  ELSE (IF SkipPhase(bucket, PHASE_ORDER[i]) THEN <<>>
        ELSE << SummaryRow(d, PHASE_ORDER[i]),
                DetailRow(d, PHASE_ORDER[i], detailTextOf(bucket, PHASE_ORDER[i])) >>)
       \o RowsOfDay(bucket, d, i + 1)

RECURSIVE RowsOfDates(_, _, _)
RowsOfDates(byDay, dates, i) ==
  IF i > Len(dates) THEN <<>>
  ELSE (IF dates[i] \in DOMAIN byDay THEN RowsOfDay(byDay[dates[i]], dates[i], 1) ELSE <<>>)
       \o RowsOfDates(byDay, dates, i + 1)

\* tasksToUpsert for the loaded order rows; [] when the function returned
\* before building it (orderRows.length === 0)
BuildBatch(orderRows, dates) ==
  IF Len(orderRows) = 0 THEN <<>>
  ELSE RowsOfDates(Aggregate(orderRows, dates), dates, 1)

(* --------------------------- titles as text -------------------------- *)

\* The text of a title is the sequence of its words (the parts between
\* spaces); the prefixes "SYS:" and "DETAIL:" are words of their own, and
\* the separator " -- " is the word "--" standing alone.

\* the words of the strings phaseSummaryTitle returns
Words(str) ==
  CASE str = "Soak (12h)"             -> <<"Soak", "(12h)">>
    [] str = "Sow + Stack (Blackout)" -> <<"Sow", "+", "Stack", "(Blackout)">>
    [] str = "Spray (Blackout) -- AM/PM as needed"
         -> <<"Spray", "(Blackout)", "--", "AM/PM", "as", "needed">>
    [] str = "Lights On (Unstack + First Water)"
         -> <<"Lights", "On", "(Unstack", "+", "First", "Water)">>
    [] str = "Water (Lights On) -- AM/PM as needed"
         -> <<"Water", "(Lights", "On)", "--", "AM/PM", "as", "needed">>
    [] OTHER                          -> <<str>>

\* `${variety} -> ${customer}` or a single name
LabelWords(label) ==
  IF Len(label) = 2 THEN <<label[1], "->", label[2]>> ELSE <<label[1]>>

\* items.map(x => `${x.label} x${x.qty}`).join(", ")
RECURSIVE ItemsWords(_, _)
ItemsWords(items, i) ==
  IF i > Len(items) THEN <<>>
  ELSE (IF i > 1 THEN <<",">> ELSE <<>>)
       \o LabelWords(items[i][1]) \o <<"x" \o ToString(items[i][3])>>
       \o ItemsWords(items, i + 1)

\* customers.map(c => `${c.label} -- ${c.qty} trays (${parts})`).join(" * ")
RECURSIVE CustomersWords(_, _)
CustomersWords(customers, i) ==
  IF i > Len(customers) THEN <<>>
  ELSE (IF i > 1 THEN <<"*">> ELSE <<>>)
       \o LabelWords(customers[i][1]) \o <<"--", ToString(customers[i][3]), "trays">>
       \o (IF Len(customers[i][5]) > 0
            THEN <<"(">> \o ItemsWords(customers[i][5], 1) \o <<")">> ELSE <<>>)
       \o CustomersWords(customers, i + 1)

DetailWords(detailText) ==
  IF Len(detailText) > 0 /\ Len(detailText[1]) = 5
  THEN CustomersWords(detailText, 1) ELSE ItemsWords(detailText, 1)

\* the title string of a stored row:  `SYS:${title}`,
\* `SYS:DETAIL:${title} -- ${detailText}`, or what the user typed
TitleText(title) ==
  IF title[1] = "SYS:" THEN <<"SYS:">> \o Words(title[2])
  ELSE IF title[1] = "SYS:DETAIL:"
  THEN <<"SYS:", "DETAIL:">> \o Words(title[2]) \o <<"--">> \o DetailWords(title[4])
  ELSE title

\* word.toLowerCase()
LowerWord(w) ==
  CASE w = "SYS:"       -> "sys:"
    [] w = "DETAIL:"    -> "detail:"
    [] w = "Soak"       -> "soak"
    [] w = "Sow"        -> "sow"
    [] w = "Stack"      -> "stack"
    [] w = "(Blackout)" -> "(blackout)"
    [] w = "Spray"      -> "spray"
    [] w = "AM/PM"      -> "am/pm"
    [] w = "Lights"     -> "lights"
    [] w = "On"         -> "on"
    [] w = "(Unstack"   -> "(unstack"
    [] w = "First"      -> "first"
    [] w = "Water)"     -> "water)"
    [] w = "Water"      -> "water"
    [] w = "(Lights"    -> "(lights"
    [] w = "On)"        -> "on)"
    [] w = "Harvest"    -> "harvest"
    [] w = "Deliver"    -> "deliver"
    [] w = "Task"       -> "task"
    [] OTHER            -> w

toLowerCase(text) == [i \in 1..Len(text) |-> LowerWord(text[i])]

\* s.startsWith(prefix), word by word
startsWith(text, prefix) ==
  /\ Len(text) >= Len(prefix)
  /\ \A i \in 1..Len(prefix) : text[i] = prefix[i]

Drop(text, n) == SubSeq(text, n + 1, Len(text))

\* /^sys:/i.test(title)
isSys(text) == startsWith(toLowerCase(text), <<"sys:">>)

\* /^sys:detail:/i.test(title), on the text of a title
isDetailRowText(text) == startsWith(toLowerCase(text), <<"sys:", "detail:">>)

\* variant: .replace(/^sys:/i, "") comes first
cleanTitleSysFirst(text) ==
  LET c1 == IF isSys(text) THEN Drop(text, 1) ELSE text
  IN  IF isDetailRowText(c1) THEN Drop(c1, 2) ELSE c1

\* title.replace(/^sys:detail:/i, "").replace(/^sys:/i, "").trim()
cleanTitle(text) ==
  LET c1 == IF isDetailRowText(text) THEN Drop(text, 2) ELSE text
  IN  IF isSys(c1) THEN Drop(c1, 1) ELSE c1

\* TasksPage detectType
detectType(text) ==
  LET s == toLowerCase(cleanTitle(text))
  IN  IF startsWith(s, <<"soak">>) THEN "soak"
      ELSE IF startsWith(s, <<"sow">>) THEN "sow"
      ELSE IF startsWith(s, <<"spray">>) THEN "spray"
      ELSE IF startsWith(s, <<"lights", "on">>) THEN "lights_on"
      ELSE IF startsWith(s, <<"water">>) THEN "water"
      ELSE IF startsWith(s, <<"harvest">>) THEN "harvest"
      ELSE IF startsWith(s, <<"deliver">>) THEN "delivery"
      ELSE "other"

\* DashboardPage detectPhaseFromSysTitle
detectPhaseFromSysTitle(text) ==
  LET s == toLowerCase(cleanTitle(text))
  IN  IF startsWith(s, <<"soak">>) THEN "soak"
      ELSE IF startsWith(s, <<"sow">>) THEN "sow"
      ELSE IF startsWith(s, <<"spray">>) THEN "spray"
      ELSE IF startsWith(s, <<"lights", "on">>) THEN "lights_on"
      ELSE IF startsWith(s, <<"water">>) THEN "water"
      ELSE IF startsWith(s, <<"harvest">>) THEN "harvest"
      ELSE IF startsWith(s, <<"deliver">>) THEN "deliver"
      ELSE "other"

\* index of the first " -- " of a text, 0 when there is none
FirstDash(text) ==
  IF \E i \in 1..Len(text) : text[i] = "--"
  THEN CHOOSE i \in 1..Len(text) : text[i] = "--" /\ \A j \in 1..(i - 1) : text[j] # "--"
  ELSE 0

\* CalendarPage parseSysDetail: cleaned.split(" -- "), first part and the rest
parseSysDetail(cleaned) ==
  IF FirstDash(cleaned) = 0 THEN [phaseTitle |-> cleaned, detailText |-> <<>>]
  ELSE [phaseTitle |-> SubSeq(cleaned, 1, FirstDash(cleaned) - 1),
        detailText |-> Drop(cleaned, FirstDash(cleaned))]

\* the key of the calendar's detail lookup:  `${ymd}__${phaseTitleLower}`
CalendarKey(ymd, phaseTitle) == <<ymd, toLowerCase(phaseTitle)>>

\* CalendarPage sysDetailByDayPhase: key -> parsed detail row
sysDetailByDayPhase(store) ==
  LET detailRows == {t \in DOMAIN store : isDetailRowText(TitleText(t.title))}
      keyOf(t) == CalendarKey(t.due_date, parseSysDetail(cleanTitle(TitleText(t.title))).phaseTitle)
  IN  [k \in {keyOf(t) : t \in detailRows} |->
         {parseSysDetail(cleanTitle(TitleText(t.title))) : t \in {x \in detailRows : keyOf(x) = k}}]

\* CalendarPage modalDetail: the body shown for an opened system item
modalDetailBody(store, date, title) ==
  LET key == CalendarKey(date, title)
  IN  IF key \in DOMAIN sysDetailByDayPhase(store)
      THEN {p.detailText : p \in sysDetailByDayPhase(store)[key]}
      ELSE {<<"No detail found for this task yet.">>}

(* ------------------------------ state -------------------------------- *)

VARIABLES
  orders,     \* the orders table: order id -> row
  tasks,      \* the tasks table: a bag of rows (the row id is left out)
  pc,         \* per call slot: the storage request the call issues next
  win,        \* per call slot: the arguments (startYMD, days) of the call
  loaded,     \* per call slot: orderRows, as mapped from the load reply
  result,     \* per call slot: how the latest call returned
  issued,     \* per call slot: the storage requests the latest call issued
  alone,      \* per call slot: no other call was in flight during this call
  notes,      \* per call slot, about the latest call: "swept" when its delete
              \* removed a row the orders of that moment do not produce,
              \* "overwrote" when its upsert hit a stored row, "diverged"
              \* when its load returned other orders than a call in
              \* flight had loaded before it
  snap,       \* the latest call that ran alone and returned ok, if it is
              \* still the latest thing that touched the generated tasks
  orderOps,   \* order mutations so far
  calls,      \* syncRange calls started so far
  taskOps,    \* task-board operations so far
  page,       \* the page the router shows
  calc        \* a calculation on calendar dates: its arguments, the time
              \* zone of the runtime and the results so far

vars == <<orders, tasks, pc, win, loaded, result, issued, alone, notes, snap,
          orderOps, calls, taskOps, page, calc>>

NullStr == "NULL"


(* ------------------------- storage collaborator ----------------------- *)

\* variant: the .neq("status", "delivered") filter is missing
RECURSIVE SelectOrdersAll(_, _)
SelectOrdersAll(table, i) ==
  IF i > Len(OrderIdSeq) THEN <<>>
  ELSE (IF OrderIdSeq[i] \in DOMAIN table
        THEN <<JoinOrder(OrderIdSeq[i], table[OrderIdSeq[i]])>> ELSE <<>>)
       \o SelectOrdersAll(table, i + 1)

\* .from("orders").select(...joins...).neq("status", "delivered"), in id order
RECURSIVE SelectOrders(_, _)
SelectOrders(table, i) ==
  IF i > Len(OrderIdSeq) THEN <<>>
  ELSE (IF OrderIdSeq[i] \in DOMAIN table /\ table[OrderIdSeq[i]].status # "delivered"
        THEN <<JoinOrder(OrderIdSeq[i], table[OrderIdSeq[i]])>> ELSE <<>>)
       \o SelectOrders(table, i + 1)

LoadOrders(table) == SelectOrders(table, 1)

\* .from("tasks").delete().gte("due_date", start).lte("due_date", end).eq("source", "generated")
\* variant: .lt("due_date", end) in place of .lte
DeleteMatchesOpenEnd(r, start, end) ==
  r.due_date >= start /\ r.due_date < end /\ r.source = "generated"

\* variant: the .eq("source", "generated") filter is missing
DeleteMatchesAnySource(r, start, end) ==
  r.due_date >= start /\ r.due_date <= end

DeleteMatches(r, start, end) ==
  r.due_date >= start /\ r.due_date <= end /\ r.source = "generated"

DbDeleteGenerated(store, start, end) ==
  [r \in {x \in DOMAIN store : ~DeleteMatches(x, start, end)} |-> store[r]]

\* the conflict target of the upsert: onConflict "source,generator_key"
Conflicts(r, b) ==
  r.generator_key # Null /\ r.source = b.source /\ r.generator_key = b.generator_key

SeqToBag(rows) ==
  [r \in Range(rows) |-> Cardinality({i \in 1..Len(rows) : rows[i] = r})]

\* variant: a plain insert, which the unique index on (source, generator_key)
\* rejects when a row is already stored under the key
DbInsert(store, rows) ==
  IF \E r \in DOMAIN store, i \in 1..Len(rows) : Conflicts(r, rows[i])
  THEN [error |-> "duplicate_key", tasks |-> store]
  ELSE [error |-> "none", tasks |-> store (+) SeqToBag(rows)]

\* variant: ignoreDuplicates, a row that conflicts with a stored row is dropped
DbUpsertIgnoreDuplicates(store, rows) ==
  LET fresh == {r \in Range(rows) : \A x \in DOMAIN store : ~Conflicts(x, r)}
  IN  [error |-> "none", tasks |-> store (+) SetToBag(fresh)]

\* .from("tasks").upsert(rows, { onConflict: "source,generator_key" }):
\* a row that conflicts with a stored row overwrites it, any other row is
\* inserted; the statement applies as a whole
DbUpsert(store, rows) ==
  LET keep == {r \in DOMAIN store : \A i \in 1..Len(rows) : ~Conflicts(r, rows[i])}
  IN  [error |-> "none", tasks |-> [r \in keep |-> store[r]] (+) SeqToBag(rows)]

(* --------------------------- syncPhaseTasksRange ---------------------- *)

Steps == {"delete", "load", "upsert"}

\* the arguments of a slot that holds no call
NoWindow == [start |-> 0, days |-> 0]

WindowDates(p) == listDates(win[p].start, win[p].days)
WindowStart(p) == WindowDates(p)[1]
WindowEnd(p)   == WindowDates(p)[Len(WindowDates(p))]

\* orderRows of the call in slot p, from the reply of the orders query
MapRows(rows) == [i \in 1..Len(rows) |-> MapOrderRow(rows[i])]

\* tasksToUpsert of the call in slot p
BatchOf(p) == BuildBatch(loaded[p], WindowDates(p))

\* if (dates.length === 0) return;
AfterDates(dates) == IF Len(dates) = 0 THEN "return" ELSE "delete"

\* variant: the delete error is not looked at
AfterDeleteIgnoresError(delErr) == "load"

\* if (delErr) throw new Error(delErr.message);
AfterDelete(delErr) == IF delErr THEN "throw" ELSE "load"

\* if (oErr) throw ...; if (orderRows.length === 0) return; ...
\* if (tasksToUpsert.length > 0) { upsert }
AfterLoad(oErr, orderRows, batch) ==
  IF oErr THEN "throw"
  ELSE IF Len(orderRows) = 0 THEN "return"
  ELSE IF Len(batch) > 0 THEN "upsert"
  ELSE "return"

\* if (insErr) throw new Error(insErr.message);
AfterUpsert(insErr) == IF insErr THEN "throw" ELSE "return"

Others(p) == Procs \ {p}

InFlight(p) == pc[p] # "idle"

\* the generated rows of a store, without their status
ProjRow(r) ==
  [due_date |-> r.due_date, phase |-> r.phase, title |-> r.title,
   task_type |-> r.task_type, generator_key |-> r.generator_key]

ProjGen(store) == {ProjRow(r) : r \in {x \in DOMAIN store : x.source = "generated"}}

\* the call in slot p moves on: to its next request, or it returns / throws
\* and its locals are gone
Continue(p, next, err, orderRows) ==
  /\ pc' = [pc EXCEPT ![p] = IF next \in Steps THEN next ELSE "idle"]
  /\ result' = [result EXCEPT ![p] = IF next = "return" THEN "ok"
                                     ELSE IF next = "throw" THEN err
                                     ELSE @]
  /\ loaded' = [loaded EXCEPT ![p] = IF next \in Steps THEN orderRows ELSE <<>>]
  /\ win' = [win EXCEPT ![p] = IF next \in Steps THEN @ ELSE NoWindow]

\* bookkeeping of the latest call that ran alone and returned ok: its
\* arguments, the order rows it loaded and the generated rows it left
Remember(p, next, orderRows) ==
  snap' = IF next \in Steps THEN snap
          ELSE IF next = "return" /\ alone[p]
          THEN Some([start |-> win[p].start, days |-> win[p].days,
                     loaded |-> orderRows, gen |-> ProjGen(tasks'),
                     round |-> IF snap # Null /\ snap[1].loaded = orderRows
                               THEN 2 ELSE 1])
          ELSE Null

\* a caller invokes syncPhaseTasksRange(start, days); the call takes the
\* lowest free slot
StartSync(p, start, days) ==
  /\ pc[p] = "idle"
  /\ \A q \in Procs : q < p => InFlight(q)
  /\ calls < MaxCalls
  /\ calls' = calls + 1
  /\ issued' = [issued EXCEPT ![p] = {}]
  /\ notes' = [notes EXCEPT ![p] = {}]
  /\ alone' = [q \in Procs |-> IF q = p THEN \A o \in Others(p) : ~InFlight(o)
                               ELSE IF InFlight(q) THEN FALSE ELSE alone[q]]
  /\ LET next == AfterDates(listDates(start, days))
     IN  /\ pc' = [pc EXCEPT ![p] = IF next \in Steps THEN next ELSE "idle"]
         /\ result' = [result EXCEPT ![p] = IF next \in Steps THEN "none" ELSE "ok"]
         /\ win' = [win EXCEPT ![p] = IF next \in Steps
                                      THEN [start |-> start, days |-> days]
                                      ELSE NoWindow]
         /\ snap' = IF /\ next \in Steps
                       /\ snap # Null
                       /\ \A o \in Others(p) : ~InFlight(o)
                       /\ snap[1].start = start /\ snap[1].days = days
                    THEN snap ELSE Null
  /\ UNCHANGED <<orders, tasks, loaded, orderOps, taskOps, calc>>

\* the rows the orders of the moment do not produce for the window
StaleRows(store, table, dates) ==
  {r \in DOMAIN store :
     /\ DeleteMatches(r, dates[1], dates[Len(dates)])
     /\ r \notin Range(BuildBatch(MapRows(LoadOrders(table)), dates))}

\* the delete request of the call in slot p is served (or fails)
DeleteStep(p, delErr) ==
  /\ pc[p] = "delete"
  /\ issued' = [issued EXCEPT ![p] = @ \cup {"delete"}]
  /\ notes' = [notes EXCEPT ![p] = IF ~delErr /\ StaleRows(tasks, orders, WindowDates(p)) # {}
                                   THEN @ \cup {"swept"} ELSE @]
  /\ tasks' = IF delErr THEN tasks
              ELSE DbDeleteGenerated(tasks, WindowStart(p), WindowEnd(p))
  /\ Continue(p, AfterDelete(delErr), "delete_error", <<>>)
  /\ Remember(p, AfterDelete(delErr), <<>>)
  /\ UNCHANGED <<orders, alone, orderOps, calls, taskOps, page, calc>>

\* the orders query of the call in slot p is served (or fails); the call
\* then maps the rows and builds tasksToUpsert
LoadStep(p, oErr) ==
  /\ pc[p] = "load"
  /\ issued' = [issued EXCEPT ![p] = @ \cup {"load"}]
  /\ tasks' = tasks
  /\ LET orderRows == IF oErr THEN <<>> ELSE MapRows(LoadOrders(orders))
         next == AfterLoad(oErr, orderRows, BuildBatch(orderRows, WindowDates(p)))
     IN  /\ Continue(p, next, "load_error", orderRows)
         /\ Remember(p, next, orderRows)
         /\ notes' = [notes EXCEPT ![p] =
                        IF ~oErr /\ \E o \in Others(p) : pc[o] = "upsert" /\ loaded[o] # orderRows
                        THEN @ \cup {"diverged"} ELSE @]
  /\ UNCHANGED <<orders, alone, orderOps, calls, taskOps, page, calc>>

\* the upsert request of the call in slot p is served (or fails)
UpsertStep(p, netErr) ==
  /\ pc[p] = "upsert"
  /\ issued' = [issued EXCEPT ![p] = @ \cup {"upsert"}]
  /\ LET reply == DbUpsert(tasks, BatchOf(p))
         insErr == netErr \/ reply.error # "none"
     IN  /\ tasks' = IF insErr THEN tasks ELSE reply.tasks
         /\ Continue(p, AfterUpsert(insErr),
                     IF netErr THEN "upsert_error" ELSE reply.error, loaded[p])
         /\ Remember(p, AfterUpsert(insErr), loaded[p])
         /\ notes' = [notes EXCEPT ![p] =
                        IF ~insErr /\ \E r \in DOMAIN tasks, b \in Range(BatchOf(p)) : Conflicts(r, b)
                        THEN @ \cup {"overwrote"} ELSE @]
  /\ UNCHANGED <<orders, alone, orderOps, calls, taskOps, page, calc>>

(* --------------------------- order screens ---------------------------- *)

OrderStatuses == {"draft", "confirmed", "packed", "delivered"}

\* what the order forms of a run enter
FormDates == {MaxDate - 1, MaxDate}
FormVarieties == {"v1"}
FormCustomers == {"c1"}

\* payload of addOrder / updateOrderLineRow; the forms reject quantity <= 0
OrderPayload(customerId, varietyId, quantity, deliveryDate, status) ==
  [customer_id |-> Some(customerId), variety_id |-> Some(varietyId),
   quantity |-> Some(quantity), delivery_date |-> deliveryDate, status |-> status]

PutOrder(table, id, row) ==
  [x \in (DOMAIN table) \cup {id} |-> IF x = id THEN row ELSE table[x]]

\* the id the database gives the next inserted order
NextOrderId(table) ==
  OrderIdSeq[CHOOSE i \in 1..Len(OrderIdSeq) :
               /\ OrderIdSeq[i] \notin DOMAIN table
               /\ \A j \in 1..(i - 1) : OrderIdSeq[j] \in DOMAIN table]

addOrder(id, c, v, q, d, st) ==
  /\ orderOps < MaxOrderOps
  /\ Cardinality(DOMAIN orders) < MaxOrders
  /\ DOMAIN orders # OrderIds
  /\ id = NextOrderId(orders)
  /\ orders' = PutOrder(orders, id, OrderPayload(c, v, q, d, st))
  /\ orderOps' = orderOps + 1
  /\ UNCHANGED <<tasks, pc, win, loaded, result, issued, alone, notes, snap, calls, taskOps, page, calc>>

updateOrderLineRow(id, c, v, q, d, st) ==
  /\ orderOps < MaxOrderOps
  /\ id \in DOMAIN orders
  /\ orders[id] # OrderPayload(c, v, q, d, st)
  /\ orders' = PutOrder(orders, id, OrderPayload(c, v, q, d, st))
  /\ orderOps' = orderOps + 1
  /\ UNCHANGED <<tasks, pc, win, loaded, result, issued, alone, notes, snap, calls, taskOps, page, calc>>

updateOrderStatus(id, st) ==
  /\ orderOps < MaxOrderOps
  /\ id \in DOMAIN orders
  /\ orders[id].status # st
  /\ orders' = [orders EXCEPT ![id].status = st]
  /\ orderOps' = orderOps + 1
  /\ UNCHANGED <<tasks, pc, win, loaded, result, issued, alone, notes, snap, calls, taskOps, page, calc>>

\* .from("tasks").delete().in("order_id", ids)
DbDeleteTasksOfOrders(store, ids) ==
  [r \in {x \in DOMAIN store : x.order_id = Null \/ x.order_id[1] \notin ids} |-> store[r]]

\* deleteOrderGroup: the task delete is best effort (its error is ignored),
\* then the order rows are deleted
deleteOrderGroup(ids, tErr) ==
  /\ orderOps < MaxOrderOps
  /\ ids # {}
  /\ ids \subseteq DOMAIN orders
  /\ tasks' = IF tErr THEN tasks ELSE DbDeleteTasksOfOrders(tasks, ids)
  /\ orders' = [x \in (DOMAIN orders) \ ids |-> orders[x]]
  /\ orderOps' = orderOps + 1
  /\ UNCHANGED <<pc, win, loaded, result, issued, alone, notes, snap, calls, taskOps, page, calc>>

\* OrderDetailPage deleteOrderLinesByIds: the task delete is best effort
\* (its outcome is not looked at), then the order rows are deleted
deleteOrderLinesByIds(ids, tErr) ==
  /\ orderOps < MaxOrderOps
  /\ ids # {}
  /\ ids \subseteq DOMAIN orders
  /\ tasks' = IF tErr THEN tasks ELSE DbDeleteTasksOfOrders(tasks, ids)
  /\ orders' = [x \in (DOMAIN orders) \ ids |-> orders[x]]
  /\ orderOps' = orderOps + 1
  /\ UNCHANGED <<pc, win, loaded, result, issued, alone, notes, snap, calls, taskOps, page, calc>>

\* onDelete of the order page: .from("orders").delete().eq("id", order.id),
\* and nothing else
onDelete(id) ==
  /\ orderOps < MaxOrderOps
  /\ id \in DOMAIN orders
  /\ orders' = [x \in (DOMAIN orders) \ {id} |-> orders[x]]
  /\ orderOps' = orderOps + 1
  /\ UNCHANGED <<tasks, pc, win, loaded, result, issued, alone, notes, snap, calls, taskOps, page, calc>>

(* ----------------------------- task board ----------------------------- *)

\* the statuses the task board of a run sets
BoardStatuses == {"planned", "delivered"}

\* TasksPage isDetailRow: title.startsWith("SYS:DETAIL:")
isDetailRow(title) == title[1] = "SYS:DETAIL:"

\* the rows the board lists: tasks.filter(t => !isDetailRow(t.title) ...)
BoardRows == {r \in DOMAIN tasks : ~isDetailRow(r.title)}

\* the row NewTaskPage inserts: title, due_date and status only
UserRow(d, st) ==
  [title         |-> <<"task", "t">>,
   due_date      |-> d,
   status        |-> st,
   order_id      |-> Null,
   task_type     |-> NullStr,
   source        |-> NullStr,
   phase         |-> NullStr,
   generator_key |-> Null]

\* NewTaskPage save()
NewTaskSave(d, st) ==
  /\ taskOps < MaxTaskOps
  /\ tasks' = tasks (+) SetToBag({UserRow(d, st)})
  /\ taskOps' = taskOps + 1
  /\ UNCHANGED <<orders, pc, win, loaded, result, issued, alone, notes, snap, orderOps, calls, page, calc>>

\* the row addTask inserts: title, due_date, status and order_id
OrderTaskRow(d, st, orderId) == [UserRow(d, st) EXCEPT !.order_id = orderId]

\* addTask({ title, dueDate, status, orderId }), for an order of the table
addTask(d, st, orderId) ==
  /\ taskOps < MaxTaskOps
  /\ orderId # Null => orderId[1] \in DOMAIN orders
  /\ tasks' = tasks (+) SetToBag({OrderTaskRow(d, st, orderId)})
  /\ taskOps' = taskOps + 1
  /\ UNCHANGED <<orders, pc, win, loaded, result, issued, alone, notes, snap, orderOps, calls, page, calc>>

\* .from("tasks").update({ status: nextStatus }).eq("id", task.id) on one row
DbUpdateStatus(store, r, nextStatus) ==
  (store (-) SetToBag({r})) (+) SetToBag({[r EXCEPT !.status = nextStatus]})

\* TasksPage setTaskStatus
setTaskStatus(r, nextStatus) ==
  /\ taskOps < MaxTaskOps
  /\ r \in DOMAIN tasks
  /\ r.status # nextStatus
  /\ tasks' = DbUpdateStatus(tasks, r, nextStatus)
  /\ taskOps' = taskOps + 1
  /\ UNCHANGED <<orders, pc, win, loaded, result, issued, alone, notes, snap, orderOps, calls, page, calc>>

(* --------------------------- specification --------------------------- *)

NoOrders == [x \in {} |-> 0]

IdleSlots ==
  /\ pc = [p \in Procs |-> "idle"]
  /\ win = [p \in Procs |-> NoWindow]
  /\ loaded = [p \in Procs |-> <<>>]
  /\ result = [p \in Procs |-> "none"]
  /\ issued = [p \in Procs |-> {}]
  /\ alone = [p \in Procs |-> TRUE]
  /\ notes = [p \in Procs |-> {}]
  /\ snap = Null
  /\ orderOps = 0
  /\ calls = 0
  /\ taskOps = 0
  /\ page = "none"

\* the order tables a run starts from: empty, or one confirmed order
InitialOrders ==
  {NoOrders} \cup
  {PutOrder(NoOrders, OrderIdSeq[1], OrderPayload(c, v, q, MaxDate, "confirmed")) :
     c \in FormCustomers, v \in FormVarieties, q \in 1..MaxQty}

Init ==
  /\ orders \in InitialOrders
  /\ tasks = EmptyBag
  /\ IdleSlots
  /\ calc = Null

SyncCall ==
  \E p \in Procs :
    \/ \E start \in StartDates, days \in CallDays :
         StartSync(p, start, days) /\ UNCHANGED page
    \/ \E delErr \in BOOLEAN : DeleteStep(p, delErr)
    \/ \E oErr \in BOOLEAN : LoadStep(p, oErr)
    \/ \E netErr \in BOOLEAN : UpsertStep(p, netErr)

OrderScreens ==
  \/ \E id \in OrderIds, c \in FormCustomers, v \in FormVarieties,
        q \in 1..MaxQty, d \in FormDates :
       \/ addOrder(id, c, v, q, d, "confirmed")
       \/ \E st \in OrderStatuses : updateOrderLineRow(id, c, v, q, d, st)
  \/ \E id \in OrderIds, st \in OrderStatuses : updateOrderStatus(id, st)
  \/ \E ids \in SUBSET OrderIds, tErr \in BOOLEAN : deleteOrderGroup(ids, tErr)

TaskBoard ==
  \/ \E d \in Dates : NewTaskSave(d, "planned")
  \/ \E r \in BoardRows, st \in BoardStatuses : setTaskStatus(r, st)

Next == SyncCall \/ OrderScreens \/ TaskBoard

Spec == Init /\ [][Next]_vars

(* ----------------- one clean sync over any order data ---------------- *)

\* the order tables the synchronizer may find: one order with any
\* quantity (missing included), date, status, variety and customer, and
\* possibly a second order of the same day
AnyOrderRows ==
  [customer_id : {Null} \cup {Some(c) : c \in DOMAIN CustomersTable},
   variety_id : {Null} \cup {Some(v) : v \in {"v1", "v2", "v3"}},
   quantity : {Null} \cup {Some(q) : q \in 0..MaxQty},
   delivery_date : Dates,
   status : OrderStatuses]

SecondOrderRows ==
  {OrderPayload("c1", "v1", q, MaxDate, "confirmed") : q \in {0, MaxQty}}

AnyOrderTables ==
  {PutOrder(NoOrders, OrderIdSeq[1], r) : r \in AnyOrderRows}
  \cup {PutOrder(PutOrder(NoOrders, OrderIdSeq[1], r), OrderIdSeq[2], r2) :
          r \in AnyOrderRows, r2 \in SecondOrderRows}

InitBatch ==
  /\ orders \in AnyOrderTables
  /\ tasks = EmptyBag
  /\ IdleSlots
  /\ calc = Null

\* one call, every request of which succeeds
NextBatch ==
  \/ \E start \in StartDates, days \in 0..MaxDays :
       calls = 0 /\ StartSync(1, start, days) /\ UNCHANGED page
  \/ DeleteStep(1, FALSE)
  \/ LoadStep(1, FALSE)
  \/ UpsertStep(1, FALSE)

SpecBatch == InitBatch /\ [][NextBatch]_vars

(* -------------------- synchronizations one at a time ------------------ *)

\* a caller that waits for the running call before it starts the next one
SerialStart(start, days) ==
  /\ \A p \in Procs : ~InFlight(p)
  /\ StartSync(1, start, days)
  /\ UNCHANGED page

\* calls one at a time, each of which may fail at any request, while the
\* order screens change the orders
NextSerial ==
  \/ \E start \in StartDates, days \in CallDays : SerialStart(start, days)
  \/ \E delErr \in BOOLEAN : DeleteStep(1, delErr)
  \/ \E oErr \in BOOLEAN : LoadStep(1, oErr)
  \/ \E netErr \in BOOLEAN : UpsertStep(1, netErr)
  \/ OrderScreens

SpecSerial == Init /\ [][NextSerial]_vars

(* ------------------- orders with tasks, and their deletion ------------ *)

\* the order tables a run of the delete paths starts from: two orders
OrderPairs ==
  {PutOrder(PutOrder(NoOrders, OrderIdSeq[1], OrderPayload(c1, "v1", q1, d1, "confirmed")),
            OrderIdSeq[2], OrderPayload(c2, "v2", q2, d2, "confirmed")) :
     c1 \in DOMAIN CustomersTable, c2 \in DOMAIN CustomersTable,
     q1 \in 1..MaxQty, q2 \in 1..MaxQty, d1 \in FormDates, d2 \in FormDates}

InitOrders ==
  /\ orders \in OrderPairs
  /\ tasks = EmptyBag
  /\ IdleSlots
  /\ calc = Null

\* tasks are added for orders, and orders are deleted on the Orders page,
\* on the order detail page or on the order page
NextOrders ==
  \/ \E d \in Dates, orderId \in {Null} \cup {Some(id) : id \in OrderIds} :
       addTask(d, "planned", orderId)
  \/ \E ids \in SUBSET OrderIds, tErr \in BOOLEAN : deleteOrderGroup(ids, tErr)
  \/ \E ids \in SUBSET OrderIds, tErr \in BOOLEAN : deleteOrderLinesByIds(ids, tErr)
  \/ \E id \in OrderIds : onDelete(id)

SpecOrders == InitOrders /\ [][NextOrders]_vars

(* ------------- one clean sync over the worked examples --------------- *)

\* In this specification a day is its day of March 2025: 12 is 2025-03-12.

\* orders A and B of the worked example, with quantities qa and qb; B goes
\* to customer cb
ExampleTable(qa, qb, cb) ==
  PutOrder(PutOrder(NoOrders, OrderIdSeq[1], OrderPayload("c1", "v4", qa, 20, "confirmed")),
           OrderIdSeq[2], OrderPayload(cb, "v5", qb, 20, "confirmed"))

\* three orders of one delivery day, of Zinnia, Amaranth and Basil
SortTable(c1, c2, q1, q2, q3) ==
  PutOrder(PutOrder(PutOrder(NoOrders,
    OrderIdSeq[1], OrderPayload(c1, "v6", q1, 20, "confirmed")),
    OrderIdSeq[2], OrderPayload(c2, "v7", q2, 20, "confirmed")),
    OrderIdSeq[3], OrderPayload("c1", "v2", q3, 20, "confirmed"))

ExampleTables ==
  {ExampleTable(qa, qb, cb) : qa \in {3, 5}, qb \in {3, 5}, cb \in {"c1", "c2"}}
  \cup {SortTable(c1, c2, q1, q2, q3) :
           c1 \in {"c1", "c2"}, c2 \in {"c1", "c2"},
           q1 \in {2, 4}, q2 \in {2, 4}, q3 \in {2, 4}}

ExampleStarts == {11, 12}
ExampleDays == {9, 10}

InitExamples ==
  /\ orders \in ExampleTables
  /\ tasks = EmptyBag
  /\ IdleSlots
  /\ calc = Null

\* one call, every request of which succeeds
NextExamples ==
  \/ \E start \in ExampleStarts, days \in ExampleDays :
       calls = 0 /\ StartSync(1, start, days) /\ UNCHANGED page
  \/ DeleteStep(1, FALSE)
  \/ LoadStep(1, FALSE)
  \/ UpsertStep(1, FALSE)

SpecExamples == InitExamples /\ [][NextExamples]_vars

(* ------------------------- pages that synchronize --------------------- *)

\* todayYMD of the session
Today == 0

\* TasksPage: syncPhaseTasksRange(todayYMD, 7)
TasksPageDays == 7

\* CalendarPage and DashboardPage: syncPhaseTasksRange(todayYMD, 30)
LookaheadDays == 30

SyncPages == {"tasks", "calendar", "dashboard"}

\* the useEffect of TasksPage / CalendarPage / DashboardPage, which runs when
\* the router shows the page (location.key changes); it starts its sync
\* whatever else is running
OpenPage(p, to) ==
  /\ to \in SyncPages
  /\ page' = to
  /\ StartSync(p, Today, IF to = "tasks" THEN TasksPageDays ELSE LookaheadDays)

\* CalendarPage resyncAndReload, the onClick of the Refresh button, which is
\* not disabled while a sync runs
resyncAndReload(p) ==
  /\ page = "calendar"
  /\ page' = page
  /\ StartSync(p, Today, LookaheadDays)

NextPages ==
  \E p \in Procs :
    \/ \E to \in SyncPages : OpenPage(p, to)
    \/ resyncAndReload(p)
    \/ \E delErr \in BOOLEAN : DeleteStep(p, delErr)
    \/ \E oErr \in BOOLEAN : LoadStep(p, oErr)
    \/ \E netErr \in BOOLEAN : UpsertStep(p, netErr)

SpecPages == Init /\ [][NextPages]_vars

(* ------------------ calendar dates as the source computes them ------- *)

\* A "YYYY-MM-DD" string is the triple <<year, month, day>> of its fields
\* (split("-").map(Number), and back with padStart).  A Date holds a time
\* value, here in hours since 1970-01-01T00:00Z (milliseconds in the source).

HoursPerDay == 24

\* the time zones the runtime may be set to, as hours ahead of UTC
TimeZones == {0 - 8, 0, 9}

\* ECMAScript DaysInYear / DayFromYear / MakeDay
InLeapYear(y) == (y % 4 = 0 /\ y % 100 # 0) \/ y % 400 = 0

DayFromYear(y) ==
  365 * (y - 1970) + ((y - 1969) \div 4) - ((y - 1901) \div 100) + ((y - 1601) \div 400)

MonthLengths(y) ==
  <<31, IF InLeapYear(y) THEN 29 ELSE 28, 31, 30, 31, 30, 31, 31, 30, 31, 30, 31>>

\* days of the year y before its month m0 (0 = January .. 12 = end of year)
RECURSIVE DaysBeforeMonth(_, _)
DaysBeforeMonth(y, m0) ==
  IF m0 = 0 THEN 0 ELSE DaysBeforeMonth(y, m0 - 1) + MonthLengths(y)[m0]

MakeDay(year, month0, date) ==
  LET ym == year + (month0 \div 12)
      mn == month0 % 12
  IN  DayFromYear(ym) + DaysBeforeMonth(ym, mn) + date - 1

\* Date.UTC(y, m - 1, d)
DateUTC(year, month0, date) == MakeDay(year, month0, date) * HoursPerDay

Day(t) == t \div HoursPerDay

YearFromTime(t) ==
  CHOOSE y \in (1970 + (Day(t) \div 366))..(1970 + (Day(t) \div 365)) :
    DayFromYear(y) <= Day(t) /\ Day(t) < DayFromYear(y + 1)

DayWithinYear(t) == Day(t) - DayFromYear(YearFromTime(t))

MonthFromTime(t) ==
  CHOOSE m0 \in 0..11 :
    /\ DaysBeforeMonth(YearFromTime(t), m0) <= DayWithinYear(t)
    /\ DayWithinYear(t) < DaysBeforeMonth(YearFromTime(t), m0 + 1)

DateFromTime(t) == DayWithinYear(t) - DaysBeforeMonth(YearFromTime(t), MonthFromTime(t)) + 1

\* dt.setUTCDate(date)
setUTCDate(t, date) ==
  MakeDay(YearFromTime(t), MonthFromTime(t), date) * HoursPerDay + (t % HoursPerDay)

\* variant: getFullYear / getMonth / getDate, the fields in the time zone of
\* the runtime
toLocalYMD(t) ==
  LET local == t + calc[1].tz
  IN  <<YearFromTime(local), MonthFromTime(local) + 1, DateFromTime(local)>>

toUtcYMD(t) == <<YearFromTime(t), MonthFromTime(t) + 1, DateFromTime(t)>>

\* addDaysYMD on the date strings themselves
addDaysYMDString(ymd, days) ==
  LET dt == DateUTC(ymd[1], ymd[2] - 1, ymd[3])
  IN  toUtcYMD(setUTCDate(dt, DateFromTime(dt) + days))

\* subtractDaysYMD on the date strings themselves
subtractDaysYMDString(ymd, days) == addDaysYMDString(ymd, 0 - days)

\* the dates and shifts of a calculation: the first, the 28th and the last
\* day of every month of a leap year, the year after it and a century year
\* that is no leap year
CalcYears == {2024, 2025, 2100}
CalcDates ==
  {ymd \in (CalcYears \X (1..12) \X (1..31)) :
     ymd[3] \in {1, 28, MonthLengths(ymd[1])[ymd[2]]}}
CalcShifts == (0 - MaxShift)..MaxShift

InitDates ==
  /\ orders = NoOrders
  /\ tasks = EmptyBag
  /\ IdleSlots
  /\ calc \in {Some([ymd |-> d, days |-> n, tz |-> z, out |-> Null, sub |-> Null, back |-> Null]) :
                 d \in CalcDates, n \in CalcShifts, z \in TimeZones}

\* out = addDaysYMD(ymd, days)
CallAddDays ==
  /\ calc[1].out = Null
  /\ calc' = Some([calc[1] EXCEPT !.out = Some(addDaysYMDString(calc[1].ymd, calc[1].days))])
  /\ UNCHANGED <<orders, tasks, pc, win, loaded, result, issued, alone, notes, snap,
                 orderOps, calls, taskOps, page>>

\* sub = subtractDaysYMD(ymd, days)
CallSubtractDays ==
  /\ calc[1].out # Null
  /\ calc[1].sub = Null
  /\ calc' = Some([calc[1] EXCEPT !.sub = Some(subtractDaysYMDString(calc[1].ymd, calc[1].days))])
  /\ UNCHANGED <<orders, tasks, pc, win, loaded, result, issued, alone, notes, snap,
                 orderOps, calls, taskOps, page>>

\* back = addDaysYMD(sub, days)
CallAddBack ==
  /\ calc[1].sub # Null
  /\ calc[1].back = Null
  /\ calc' = Some([calc[1] EXCEPT !.back = Some(addDaysYMDString(calc[1].sub[1], calc[1].days))])
  /\ UNCHANGED <<orders, tasks, pc, win, loaded, result, issued, alone, notes, snap,
                 orderOps, calls, taskOps, page>>

NextDates == CallAddDays \/ CallSubtractDays \/ CallAddBack

SpecDates == InitDates /\ [][NextDates]_vars

(* -------------------- the projection of one order --------------------- *)

\* the largest harvest days and blackout days of a projected order
MaxPlanDays == 3

\* entries of orderRows: one confirmed order of one tray delivered on day 0,
\* with any harvest days and blackout days
PlanOrders ==
  {[id |-> OrderIdSeq[1], qty |-> 1, deliveryDate |-> 0, status |-> "confirmed",
    varietyName |-> "Pea", soakHours |-> 0, blackoutDays |-> b, harvestDays |-> h,
    customerName |-> "Cafe B"] : b \in 0..MaxPlanDays, h \in 0..MaxPlanDays}

PlanStarts == (0 - MaxPlanDays - 1)..0

PlanDays == 1..(MaxPlanDays + 3)

InitRanges ==
  /\ orders = NoOrders
  /\ tasks = EmptyBag
  /\ IdleSlots
  /\ calc \in {Some([o |-> o, dates |-> <<>>, byDay |-> EmptyMap]) : o \in PlanOrders}

\* the order loop over orderRows = [o] and the dates of a window
ProjectOrder(start, days) ==
  /\ calc[1].dates = <<>>
  /\ calc' = Some([calc[1] EXCEPT !.dates = listDates(start, days),
                                  !.byDay = Aggregate(<<calc[1].o>>, listDates(start, days))])
  /\ UNCHANGED <<orders, tasks, pc, win, loaded, result, issued, alone, notes, snap,
                 orderOps, calls, taskOps, page>>

NextRanges == \E start \in PlanStarts, days \in PlanDays : ProjectOrder(start, days)

SpecRanges == InitRanges /\ [][NextRanges]_vars

(* ------------------------------ properties ---------------------------- *)

\* the generated rows of a store with dueDate in [start, end]
GeneratedInWindow(store, start, end) ==
  [r \in {x \in DOMAIN store : x.source = "generated" /\ InWindow(x.due_date, start, end)}
     |-> store[r]]

\* everything else: generated rows outside [start, end] and rows of any other source
OutsideOrForeign(store, start, end) ==
  [r \in {x \in DOMAIN store : ~(x.source = "generated" /\ InWindow(x.due_date, start, end))}
     |-> store[r]]

\* no two generated rows of the store carry the same generator key
NoDuplicateKeys(store) ==
  \A r \in DOMAIN store :
    r.source = "generated" =>
      /\ store[r] = 1
      /\ \A x \in DOMAIN store :
           (x.source = "generated" /\ x.generator_key = r.generator_key) => x = r

\* the call in slot p returns ok in this step
ReturnsOk(p) == pc[p] \in Steps /\ pc'[p] = "idle" /\ result'[p] = "ok"

\* orderRows of the call in slot p when it returns
LoadedAtReturn(p) ==
  IF pc[p] = "load" THEN MapRows(LoadOrders(orders)) ELSE loaded[p]

\* for every (date, phase) of the window the store holds either nothing or
\* exactly one summary row and one detail row
PairPerBucket(store, dates) ==
  \A i \in 1..Len(dates), ph \in Phases :
    LET rows == {r \in DOMAIN store :
                   r.source = "generated" /\ r.due_date = dates[i] /\ r.phase = ph}
    IN  \/ rows = {}
        \/ /\ Cardinality(rows) = 2
           /\ \A r \in rows : store[r] = 1
           /\ {r.title[1] : r \in rows} = {"SYS:", "SYS:DETAIL:"}

\* C1: right after a syncRange call that ran alone returns ok, the generated
\* tasks with dueDate in its window are exactly the rows derived from the
\* orders it loaded (one summary and one detail row per non-empty bucket),
\* whatever generated rows the store held before.
C1_WindowIsDerivedSet ==
  [][\A p \in Procs :
       (ReturnsOk(p) /\ alone[p]) =>
         /\ GeneratedInWindow(tasks', WindowStart(p), WindowEnd(p))
              = SeqToBag(BuildBatch(LoadedAtReturn(p), WindowDates(p)))
         /\ PairPerBucket(tasks', WindowDates(p))]_vars

\* a call that ran alone returned ok after its delete removed rows that the
\* orders no longer produce and its upsert wrote a batch
C1_Witness ==
  \E p \in Procs :
    /\ pc[p] = "idle" /\ result[p] = "ok" /\ alone[p]
    /\ issued[p] = Steps
    /\ "swept" \in notes[p]

\* C2: a second syncRange(d, n) directly after a first one that loaded the
\* same orders, with no other sync in between, leaves the same generated
\* tasks (dueDate, phase, title, task type, generator key) and no two rows
\* with the same generator key.
C2_Idempotent ==
  [][\A p \in Procs :
       (ReturnsOk(p) /\ alone[p] /\ snap # Null /\ snap[1].loaded = LoadedAtReturn(p)) =>
         /\ ProjGen(tasks') = snap[1].gen
         /\ NoDuplicateKeys(tasks')]_vars

\* the second of two such calls has returned and there are generated tasks
C2_Witness ==
  /\ snap # Null
  /\ snap[1].round = 2
  /\ snap[1].gen # {}
  /\ ProjGen(tasks) = snap[1].gen

\* C3: no step of a syncRange call on window W, successful or failed,
\* creates, modifies or deletes a generated task with dueDate outside W or
\* a task whose source is not "generated".
C3_Locality ==
  [][\A p \in Procs :
       (pc[p] \in Steps /\ pc'[p] # pc[p]) =>
         OutsideOrForeign(tasks', WindowStart(p), WindowEnd(p))
           = OutsideOrForeign(tasks, WindowStart(p), WindowEnd(p))]_vars

\* a call has deleted and loaded for its window while the store holds a
\* generated task outside the window and a user task inside it
C3_Witness ==
  \E p \in Procs :
    /\ pc[p] = "upsert"
    /\ "swept" \in notes[p]
    /\ \E r \in DOMAIN tasks :
         r.source = "generated" /\ ~InWindow(r.due_date, WindowStart(p), WindowEnd(p))
    /\ \E r \in DOMAIN tasks :
         r.source # "generated" /\ InWindow(r.due_date, WindowStart(p), WindowEnd(p))

\* C7: a failed delete makes the call return an error with the store
\* unchanged and neither load nor upsert issued; a failed load makes the
\* call return an error with no upsert issued.
C7_AbortOnDeleteOrLoadError ==
  [][\A p \in Procs :
       /\ DeleteStep(p, TRUE) =>
            /\ tasks' = tasks
            /\ pc'[p] = "idle"
            /\ result'[p] = "delete_error"
            /\ issued'[p] = {"delete"}
       /\ LoadStep(p, TRUE) =>
            /\ tasks' = tasks
            /\ pc'[p] = "idle"
            /\ result'[p] = "load_error"
            /\ issued'[p] = {"delete", "load"}]_vars

\* one call has failed at its delete and returned,
\* another at its load
C7_Witness ==
  \E p, q \in Procs :
    /\ result[p] = "delete_error" /\ issued[p] = {"delete"} /\ pc[p] = "idle"
    /\ result[q] = "load_error" /\ issued[q] = {"delete", "load"} /\ pc[q] = "idle"

\* C8: when the upsert of a call fails, the call returns an error and no
\* generated task with dueDate in its window is in the store.
C8_FailedUpsertLeavesWindowEmpty ==
  [][\A p \in Procs :
       UpsertStep(p, TRUE) =>
         /\ result'[p] = "upsert_error"
         /\ GeneratedInWindow(tasks', WindowStart(p), WindowEnd(p)) = EmptyBag]_vars

\* C10: however the steps of two calls interleave, no call fails with a
\* duplicate-key error and the store never holds two generated rows with
\* the same generator key.
C10_NoDuplicateKey ==
  /\ \A p \in Procs : result[p] # "duplicate_key"
  /\ NoDuplicateKeys(tasks)

\* two calls that were in flight together have both returned ok and the
\* upsert of one of them overwrote stored rows
C10_Witness ==
  \E p, q \in Procs :
    /\ p # q
    /\ result[p] = "ok" /\ result[q] = "ok"
    /\ ~alone[p] /\ ~alone[q]
    /\ "overwrote" \in notes[q]

(* --------------- properties of the projection and the batch ----------- *)

RemoveAt(seq, i) == SubSeq(seq, 1, i - 1) \o SubSeq(seq, i + 1, Len(seq))

WithoutOrder(table, id) == [x \in (DOMAIN table) \ {id} |-> table[x]]

\* orderRows of the call in flight in slot p (the order table does not
\* change while SpecBatch runs)
RowsOf(p) == IF pc[p] = "upsert" THEN loaded[p] ELSE MapRows(LoadOrders(orders))

NameLabels == {<<NameOrder[i]>> : i \in 1..Len(NameOrder)}

\* quantity of variety v in the breakdown of customer c in a bucket
Breakdown0(bucket, c, v) ==
  IF c \in DOMAIN bucket.deliverBreakdown THEN MapGet0(bucket.deliverBreakdown[c], v) ELSE 0

\* C4: an order with status "packed" adds nothing to any soak, sow, spray,
\* lights_on, water or harvest bucket of any date, and adds its quantity to
\* the deliver bucket of its delivery date (when in the window) under its
\* customer, with its variety in the breakdown.
C4_PackedOnlyDelivers ==
  \A p \in Procs :
    InFlight(p) =>
      \A i \in 1..Len(RowsOf(p)) :
        RowsOf(p)[i].status = "packed" =>
          LET o       == RowsOf(p)[i]
              dates   == WindowDates(p)
              with    == Aggregate(RowsOf(p), dates)
              without == Aggregate(RemoveAt(RowsOf(p), i), dates)
          IN  \A d \in Range(dates) :
                LET bw  == BucketOf(with, d)
                    bo  == BucketOf(without, d)
                    add == IF d = o.deliveryDate THEN o.qty ELSE 0
                IN  /\ \A ph \in Phases \ {"deliver"} :
                         /\ bw.summary[ph] = bo.summary[ph]
                         /\ bw.detail[ph] = bo.detail[ph]
                    /\ \A c \in NameLabels :
                         LET mine == IF c = <<o.customerName>> THEN add ELSE 0
                         IN  /\ MapGet0(bw.summary["deliver"], c)
                                  = MapGet0(bo.summary["deliver"], c) + mine
                             /\ MapGet0(bw.detail["deliver"], c)
                                  = MapGet0(bo.detail["deliver"], c) + mine
                             /\ \A v \in NameLabels :
                                  Breakdown0(bw, c, v) =
                                    Breakdown0(bo, c, v)
                                      + (IF v = <<o.varietyName>> THEN mine ELSE 0)
                    /\ d = o.deliveryDate =>
                         /\ <<o.customerName>> \in DOMAIN bw.summary["deliver"]
                         /\ <<o.customerName>> \in DOMAIN bw.detail["deliver"]
                         /\ <<o.customerName>> \in DOMAIN bw.deliverBreakdown
                         /\ <<o.varietyName>> \in DOMAIN bw.deliverBreakdown[<<o.customerName>>]

\* a call has loaded a packed order with trays whose delivery day and harvest
\* day are both in its window
C4_Witness ==
  \E p \in Procs :
    /\ pc[p] = "upsert"
    /\ \E i \in 1..Len(loaded[p]) :
         /\ loaded[p][i].status = "packed"
         /\ loaded[p][i].qty > 0
         /\ InWindow(loaded[p][i].deliveryDate, WindowStart(p), WindowEnd(p))
         /\ InWindow(harvestDateOf(loaded[p][i]), WindowStart(p), WindowEnd(p))

\* C5: an order with status "delivered" contributes to no bucket, and the
\* generated tasks a sync produces are those it produces without the order.
C5_DeliveredExcluded ==
  \A id \in DOMAIN orders :
    orders[id].status = "delivered" =>
      /\ \A p \in Procs :
           InFlight(p) =>
             Aggregate(RowsOf(p), WindowDates(p))
               = Aggregate(MapRows(LoadOrders(WithoutOrder(orders, id))), WindowDates(p))
      /\ snap # Null =>
           tasks = SeqToBag(BuildBatch(MapRows(LoadOrders(WithoutOrder(orders, id))),
                                       listDates(snap[1].start, snap[1].days)))

\* a sync has returned ok whose window holds the delivery day of a
\* delivered order with trays
C5_Witness ==
  /\ snap # Null
  /\ \E id \in DOMAIN orders :
       /\ orders[id].status = "delivered"
       /\ NumberOr0(orders[id].quantity) > 0
       /\ InWindow(orders[id].delivery_date, snap[1].start,
                   snap[1].start + snap[1].days - 1)

RECURSIVE MapTotal(_)
MapTotal(map) ==
  IF DOMAIN map = {} THEN 0
  ELSE LET k == CHOOSE x \in DOMAIN map : TRUE
       IN  map[k] + MapTotal([x \in (DOMAIN map) \ {k} |-> map[x]])

\* C6: after a sync, a (date, phase) of the window whose aggregated quantity
\* is zero has no summary row and no detail row.
C6_NoRowForZeroBucket ==
  snap # Null =>
    LET dates == listDates(snap[1].start, snap[1].days)
        byDay == Aggregate(MapRows(LoadOrders(orders)), dates)
    IN  \A d \in Range(dates), ph \in Phases :
          MapTotal(BucketOf(byDay, d).summary[ph]) = 0 =>
            ~\E r \in DOMAIN tasks :
               r.source = "generated" /\ r.due_date = d /\ r.phase = ph

\* C9: no two syncRange calls with overlapping windows are in flight
\* together.
C9_CallersSerialize ==
  \A p, q \in Procs :
    (p # q /\ InFlight(p) /\ InFlight(q)) =>
      \/ WindowEnd(p) < WindowStart(q)
      \/ WindowEnd(q) < WindowStart(p)

(* ------------------------- racing synchronizations -------------------- *)

\* the generated rows of a store that the orders of a table do not produce
StaleIn(store, table) ==
  {r \in DOMAIN store :
     /\ r.source = "generated"
     /\ r \notin Range(BuildBatch(MapRows(LoadOrders(table)), <<r.due_date>>))}

C12_NoDaysIsNoOp ==
  [][\A p \in Procs, start \in StartDates, days \in CallDays :
       (days <= 0 /\ StartSync(p, start, days)) =>
         /\ tasks' = tasks
         /\ orders' = orders
         /\ pc'[p] = "idle"
         /\ result'[p] = "ok"
         /\ issued'[p] = {}]_vars

\* a call has returned ok without issuing a request while the store holds
\* generated tasks
C12_Witness ==
  \E p \in Procs :
    /\ calls > 0
    /\ pc[p] = "idle" /\ result[p] = "ok" /\ issued[p] = {}
    /\ \E r \in DOMAIN tasks : r.source = "generated"

\* C13: for a single order with quantity Q that is neither packed nor
\* delivered, with its sow date (delivery date minus the harvest days of its
\* variety) and its delivery date in the window, the sow detail bucket on the
\* sow date holds exactly Q, under the order's variety and customer, and the
\* deliver detail bucket on the delivery date holds exactly Q, under its
\* customer.
C13_QuantityConserved ==
  \A p \in Procs :
    (InFlight(p) /\ Len(RowsOf(p)) = 1 /\ RowsOf(p)[1].status \notin {"packed", "delivered"}) =>
      LET o     == RowsOf(p)[1]
          sow   == IF o.harvestDays > 0 THEN o.deliveryDate - o.harvestDays
                   ELSE o.deliveryDate
          byDay == Aggregate(RowsOf(p), WindowDates(p))
      IN  (InWindow(sow, WindowStart(p), WindowEnd(p))
             /\ InWindow(o.deliveryDate, WindowStart(p), WindowEnd(p))) =>
            /\ MapTotal(BucketOf(byDay, sow).detail["sow"]) = o.qty
            /\ DOMAIN BucketOf(byDay, sow).detail["sow"] = {<<o.varietyName, o.customerName>>}
            /\ MapTotal(BucketOf(byDay, o.deliveryDate).detail["deliver"]) = o.qty
            /\ DOMAIN BucketOf(byDay, o.deliveryDate).detail["deliver"] = {<<o.customerName>>}

\* a call has loaded a single confirmed order with trays whose sow date lies
\* before its delivery date, both in the window
C13_Witness ==
  \E p \in Procs :
    /\ pc[p] = "upsert"
    /\ Len(loaded[p]) = 1
    /\ loaded[p][1].status = "confirmed"
    /\ loaded[p][1].qty > 0
    /\ loaded[p][1].harvestDays > 0
    /\ InWindow(loaded[p][1].deliveryDate - loaded[p][1].harvestDays, WindowStart(p), WindowEnd(p))
    /\ InWindow(loaded[p][1].deliveryDate, WindowStart(p), WindowEnd(p))

(* ------------------------- the worked examples ------------------------ *)

\* quantity of every label of a map, 0 for a map without entries
TotalOn(byDay, d, phase) == MapTotal(BucketOf(byDay, d).summary[phase])

\* C14: orders A (Pea, Cafe B, 5 trays, soak 12h) and B (Pea, Farm C, 3
\* trays, no soak), harvest days 8, blackout days 3, both delivered on
\* 2025-03-20: on 03-12 the sow summary bucket is {Pea: 8}, the sow detail
\* bucket {Pea -> Cafe B: 5, Pea -> Farm C: 3} and the soak bucket holds only
\* Cafe B's 5; spray totals 8 on 03-12..14, lights_on falls on 03-15, water
\* on 03-15..19, harvest on 03-19, and the deliver detail text of 03-20 is
\* "Cafe B -- 5 trays (Pea x5) * Farm C -- 3 trays (Pea x3)".  For any
\* quantities qa and qb the quantities under one label add.
C14_WorkedExample ==
  \A p \in Procs :
    InFlight(p) =>
      LET byDay == Aggregate(RowsOf(p), WindowDates(p))
          inW(d) == InWindow(d, WindowStart(p), WindowEnd(p))
          on(d)  == BucketOf(byDay, d)
      IN  /\ orders = ExampleTable(5, 3, "c2") =>
                /\ inW(12) =>
                     /\ on(12).summary["sow"] = (<<"Pea">> :> 8)
                     /\ on(12).detail["sow"] = (<<"Pea", "Cafe B">> :> 5) @@ (<<"Pea", "Farm C">> :> 3)
                     /\ on(12).summary["soak"] = (<<"Pea">> :> 5)
                     /\ on(12).detail["soak"] = (<<"Pea", "Cafe B">> :> 5)
                /\ \A d \in Range(WindowDates(p)) :
                     /\ TotalOn(byDay, d, "soak") = IF d = 12 THEN 5 ELSE 0
                     /\ TotalOn(byDay, d, "sow") = IF d = 12 THEN 8 ELSE 0
                     /\ TotalOn(byDay, d, "spray") = IF d \in 12..14 THEN 8 ELSE 0
                     /\ TotalOn(byDay, d, "lights_on") = IF d = 15 THEN 8 ELSE 0
                     /\ TotalOn(byDay, d, "water") = IF d \in 15..19 THEN 8 ELSE 0
                     /\ TotalOn(byDay, d, "harvest") = IF d = 19 THEN 8 ELSE 0
                     /\ TotalOn(byDay, d, "deliver") = IF d = 20 THEN 8 ELSE 0
                /\ inW(20) =>
                     detailTextOf(on(20), "deliver") =
                       << << <<"Cafe B">>, "--", 5, "trays", << << <<"Pea">>, "x", 5 >> >> >>,
                          << <<"Farm C">>, "--", 3, "trays", << << <<"Pea">>, "x", 3 >> >> >> >>
          /\ \A qa \in {3, 5}, qb \in {3, 5} :
                /\ (orders = ExampleTable(qa, qb, "c2") /\ inW(12)) =>
                     /\ on(12).summary["sow"] = (<<"Pea">> :> (qa + qb))
                     /\ on(12).detail["sow"] = (<<"Pea", "Cafe B">> :> qa) @@ (<<"Pea", "Farm C">> :> qb)
                /\ (orders = ExampleTable(qa, qb, "c1") /\ inW(12)) =>
                     /\ on(12).summary["sow"] = (<<"Pea">> :> (qa + qb))
                     /\ on(12).detail["sow"] = (<<"Pea", "Cafe B">> :> (qa + qb))
                     /\ on(12).detail["soak"] = (<<"Pea", "Cafe B">> :> qa)

\* a call has loaded orders A and B for a window that holds 03-12..03-20
C14_Witness ==
  \E p \in Procs :
    /\ pc[p] = "upsert"
    /\ orders = ExampleTable(5, 3, "c2")
    /\ Len(loaded[p]) = 2
    /\ WindowStart(p) <= 12 /\ WindowEnd(p) >= 20

\* label a comes before label b in ascending order: by the first name,
\* then by the second
AscendingLabels(a, b) ==
  \/ NameRank(a[1]) < NameRank(b[1])
  \/ /\ a[1] = b[1]
     /\ Len(a) = 2 /\ Len(b) = 2
     /\ NameRank(a[2]) < NameRank(b[2])

\* a rendered list, each entry <<label, sep, qty, ...>>, is in descending
\* quantity, entries of equal quantity in ascending label order
InRenderOrder(list) ==
  \A i, j \in 1..Len(list) :
    i < j =>
      \/ list[i][3] > list[j][3]
      \/ list[i][3] = list[j][3] /\ AscendingLabels(list[i][1], list[j][1])

DetailRowsOf(store) == {r \in DOMAIN store : r.source = "generated" /\ isDetailRow(r.title)}

\* C15: in every written detail row the entries appear in descending
\* quantity and, for equal quantities, in ascending label order: the labels
\* of a non-deliver bucket, the customers of a deliver bucket, and the
\* varieties inside each customer's breakdown.  Zinnia 4, Amaranth 4 and
\* Basil 2 render as Amaranth, Zinnia, Basil.
C15_RenderOrder ==
  /\ \A r \in DetailRowsOf(tasks) :
       /\ InRenderOrder(r.title[4])
       /\ r.phase = "deliver" =>
            \A i \in 1..Len(r.title[4]) : InRenderOrder(r.title[4][i][5])
  /\ orders = SortTable("c1", "c1", 4, 4, 2) =>
       \A r \in DetailRowsOf(tasks) :
         /\ (r.phase = "sow" /\ r.due_date = 19) =>
              r.title[4] = << << <<"Amaranth", "Cafe B">>, "x", 4 >>,
                              << <<"Zinnia", "Cafe B">>, "x", 4 >>,
                              << <<"Basil", "Cafe B">>, "x", 2 >> >>
         /\ (r.phase = "deliver" /\ r.due_date = 20) =>
              r.title[4] = << << <<"Cafe B">>, "--", 10, "trays",
                                 << << <<"Amaranth">>, "x", 4 >>,
                                    << <<"Zinnia">>, "x", 4 >>,
                                    << <<"Basil">>, "x", 2 >> >> >> >>

\* the detail rows of Zinnia 4, Amaranth 4 and Basil 2 for one customer are
\* written, both on the sow day and on the delivery day
C15_Witness ==
  /\ orders = SortTable("c1", "c1", 4, 4, 2)
  /\ \E r \in DetailRowsOf(tasks) :
       r.phase = "sow" /\ r.due_date = 19 /\ Len(r.title[4]) = 3
  /\ \E r \in DetailRowsOf(tasks) :
       r.phase = "deliver" /\ r.due_date = 20 /\ Len(r.title[4][1][5]) = 3

(* ---------------------------- calendar days --------------------------- *)

\* the Gregorian calendar: the day after and the day before a date
CalendarMonthDays(y, m) ==
  IF m = 2 THEN (IF (y % 4 = 0 /\ y % 100 # 0) \/ y % 400 = 0 THEN 29 ELSE 28)
  ELSE IF m \in {4, 6, 9, 11} THEN 30 ELSE 31

NextDay(ymd) ==
  IF ymd[3] < CalendarMonthDays(ymd[1], ymd[2]) THEN <<ymd[1], ymd[2], ymd[3] + 1>>
  ELSE IF ymd[2] < 12 THEN <<ymd[1], ymd[2] + 1, 1>>
  ELSE <<ymd[1] + 1, 1, 1>>

PrevDay(ymd) ==
  IF ymd[3] > 1 THEN <<ymd[1], ymd[2], ymd[3] - 1>>
  ELSE IF ymd[2] > 1 THEN <<ymd[1], ymd[2] - 1, CalendarMonthDays(ymd[1], ymd[2] - 1)>>
  ELSE <<ymd[1] - 1, 12, 31>>

\* the calendar day n whole days after ymd (before it, for negative n)
RECURSIVE DaysAfter(_, _)
DaysAfter(ymd, n) ==
  IF n = 0 THEN ymd
  ELSE IF n > 0 THEN DaysAfter(NextDay(ymd), n - 1)
  ELSE DaysAfter(PrevDay(ymd), n + 1)

\* C16: addDays(d, n) is the calendar day n whole days after d, across month,
\* year and leap-day boundaries and in every time zone of the runtime
\* (addDays(2025-03-01, 31) = 2025-04-01); subtractDays(d, n) is the day n
\* days before d, and adding n days to it gives d again.
C16_AddDaysIsCalendarShift ==
  calc # Null =>
    LET c == calc[1]
    IN  /\ c.out # Null =>
             /\ c.out[1] = DaysAfter(c.ymd, c.days)
             /\ (c.ymd = <<2025, 3, 1>> /\ c.days = 31) => c.out[1] = <<2025, 4, 1>>
        /\ c.sub # Null => c.sub[1] = DaysAfter(c.ymd, 0 - c.days)
        /\ c.back # Null => c.back[1] = c.ymd

\* 31 days were added to 2025-03-01 in a time zone behind UTC, the days
\* subtracted from a leap day led into another year, and the way back
\* was computed
C16_Witness ==
  /\ calc # Null
  /\ calc[1].back # Null
  /\ calc[1].tz < 0
  /\ \/ calc[1].ymd = <<2025, 3, 1>> /\ calc[1].days = 31
     \/ calc[1].ymd = <<2024, 2, 29>> /\ calc[1].sub[1][1] # 2024

(* ---------------------------- generator keys -------------------------- *)

Kinds == {"summary", "detail"}

\* C17: no two rows of the batch one syncRange call computes share a
\* generator key, and distinct (dueDate, phase, kind) triples give distinct
\* generator keys.
C17_KeysDistinct ==
  /\ \A p \in Procs :
       pc[p] = "upsert" =>
         LET batch == BatchOf(p)
         IN  Cardinality({batch[i].generator_key : i \in 1..Len(batch)}) = Len(batch)
  /\ Cardinality({makeGeneratorKey(t[1], t[2], t[3]) : t \in Dates \X Phases \X Kinds})
       = Cardinality(Dates \X Phases \X Kinds)

\* a call has computed a batch with rows of one phase on two days
C17_Witness ==
  \E p \in Procs :
    /\ pc[p] = "upsert"
    /\ LET batch == BatchOf(p)
       IN  \E i, j \in 1..Len(batch) :
             /\ batch[i].phase = batch[j].phase
             /\ batch[i].due_date # batch[j].due_date

(* ------------------------------ task types ---------------------------- *)

GeneratedRows(store) == {r \in DOMAIN store : r.source = "generated"}

\* C18, as claimed: the task type of a generated task is the name of its
\* phase for soak, sow, spray, lights_on, water and harvest, and "delivery"
\* for deliver.
C18_TaskTypeSameNameAsPhase ==
  \A r \in GeneratedRows(tasks) :
    r.task_type = IF r.phase = "deliver" THEN "delivery" ELSE r.phase

\* C18, amended: the task type of a generated task is determined by its
\* phase alone: sow, spray, lights_on, water and harvest map to the task type
\* of the same name, deliver maps to "delivery" and soak maps to "other"; the
\* seven phases map to seven distinct task types.
C18_TaskTypeOfPhase ==
  /\ \A r \in GeneratedRows(tasks) :
       r.task_type = CASE r.phase = "deliver" -> "delivery"
                       [] r.phase = "soak"    -> "other"
                       [] OTHER               -> r.phase
  /\ Cardinality({taskTypeForPhase(ph) : ph \in Phases}) = 7

\* the store holds the generated rows of a soak and of a sow
C18_Witness ==
  /\ \E r \in GeneratedRows(tasks) : r.phase = "soak"
  /\ \E r \in GeneratedRows(tasks) : r.phase = "sow"

(* ------------------------ summary and detail rows --------------------- *)

SummaryRowsOn(store, d, ph) ==
  {r \in GeneratedRows(store) : r.due_date = d /\ r.phase = ph /\ ~isDetailRow(r.title)}

DetailRowsOn(store, d, ph) ==
  {r \in GeneratedRows(store) : r.due_date = d /\ r.phase = ph /\ isDetailRow(r.title)}

C20_DeleteRemovesTasksOfOrder ==
  [][\A id \in DOMAIN orders :
       id \notin DOMAIN orders' =>
         \A r \in DOMAIN tasks' : r.order_id # Some(id)]_vars

(* --------------------------- reading the titles ----------------------- *)

\* C21: the consumers' title parsing recovers kind and phase of every
\* generated row: a summary title is a system row that is no detail row, a
\* detail title is a detail row, and the phase detected from either title, by
\* the task board's detectType and by the dashboard's
\* detectPhaseFromSysTitle, is the phase the row was generated for (deliver
\* read as delivery on the task board).
C21_TitlesParseBack ==
  \A r \in GeneratedRows(tasks) :
    LET text == TitleText(r.title)
    IN  /\ isSys(text)
        /\ isDetailRowText(text) <=> (r.generator_key[4] = "detail")
        /\ detectType(text) = IF r.phase = "deliver" THEN "delivery" ELSE r.phase
        /\ detectPhaseFromSysTitle(text) = r.phase

\* the store holds the summary and the detail row of a spray and of a
\* lights_on
C21_Witness ==
  \A ph \in {"spray", "lights_on"}, k \in {"summary", "detail"} :
    \E r \in GeneratedRows(tasks) : r.phase = ph /\ r.generator_key[4] = k

\* C30: for every generated summary row whose detail row is stored, the
\* calendar's lookup with the date and the cleaned title of the summary row
\* finds the detail text of the detail row of the same date and phase.
C30_CalendarFindsDetail ==
  \A r \in GeneratedRows(tasks) :
    ~isDetailRowText(TitleText(r.title)) =>
      \A t \in GeneratedRows(tasks) :
        (t.due_date = r.due_date /\ t.phase = r.phase /\ isDetailRowText(TitleText(t.title))) =>
          modalDetailBody(tasks, r.due_date, cleanTitle(TitleText(r.title)))
            = {DetailWords(t.title[4])}

(* ------------------- what one order adds to the buckets ---------------- *)

\* the label an order is counted under in the summary and in the detail map
\* of a phase
SummaryLabel(o, phase) ==
  IF phase = "deliver" THEN <<o.customerName>> ELSE <<o.varietyName>>

DetailLabel(o, phase) ==
  IF phase = "deliver" THEN <<o.customerName>> ELSE <<o.varietyName, o.customerName>>

\* the order rows of the call in slot p that take part in the grow phases
Grown(p) == {i \in 1..Len(RowsOf(p)) : RowsOf(p)[i].status \notin {"packed", "delivered"}}

\* with and without being byDay computed with and without order o: the
\* order adds exactly n to its labels of (d, phase), in the summary and in
\* the detail map, and nothing to any other label
AddsExactly(with, without, o, d, phase, n) ==
  LET bw == BucketOf(with, d)
      bo == BucketOf(without, d)
  IN  /\ \A l \in NameLabels :
           MapGet0(bw.summary[phase], l) =
             MapGet0(bo.summary[phase], l) + (IF l = SummaryLabel(o, phase) THEN n ELSE 0)
      /\ \A l \in DOMAIN bw.detail[phase] \cup DOMAIN bo.detail[phase] \cup {DetailLabel(o, phase)} :
           MapGet0(bw.detail[phase], l) =
             MapGet0(bo.detail[phase], l) + (IF l = DetailLabel(o, phase) THEN n ELSE 0)

\* the order has an entry at (d, phase), in both maps
HasEntry(with, o, d, phase) ==
  /\ SummaryLabel(o, phase) \in DOMAIN BucketOf(with, d).summary[phase]
  /\ DetailLabel(o, phase) \in DOMAIN BucketOf(with, d).detail[phase]

\* no map of (d, phase) has an entry
NoEntry(with, d, phase) ==
  /\ BucketOf(with, d).summary[phase] = EmptyMap
  /\ BucketOf(with, d).detail[phase] = EmptyMap

\* the days a property looks at: the window and the days around it
DaysAround(dates) == (dates[1] - 3)..(dates[Len(dates)] + 1)

\* C22: a non-packed, non-delivered order is sown on deliveryDate -
\* harvestDays (on deliveryDate when harvestDays is 0) and harvested on
\* deliveryDate - 1; it adds its quantity once to the sow bucket of the sow
\* date, to the soak bucket of the sow date exactly when soakHours > 0, to
\* the harvest bucket of the harvest date and to the deliver bucket of the
\* delivery date, each only when that date is in the window, and to no sow,
\* soak, harvest or deliver bucket of any other date.
C22_SowSoakHarvestDeliver ==
  \A p \in Procs :
    InFlight(p) =>
      \A i \in Grown(p) :
        LET o       == RowsOf(p)[i]
            dates   == WindowDates(p)
            with    == Aggregate(RowsOf(p), dates)
            without == Aggregate(RemoveAt(RowsOf(p), i), dates)
            sowDate == IF o.harvestDays > 0 THEN o.deliveryDate - o.harvestDays
                       ELSE o.deliveryDate
            harvestDate == o.deliveryDate - 1
            on(d, phase) ==
              /\ d \in Range(dates)
              /\ CASE phase = "sow"     -> d = sowDate
                   [] phase = "soak"    -> d = sowDate /\ o.soakHours > 0
                   [] phase = "harvest" -> d = harvestDate
                   [] phase = "deliver" -> d = o.deliveryDate
        IN  \A d \in DaysAround(dates), phase \in {"sow", "soak", "harvest", "deliver"} :
              /\ AddsExactly(with, without, o, d, phase, IF on(d, phase) THEN o.qty ELSE 0)
              /\ on(d, phase) => HasEntry(with, o, d, phase)
              /\ (Len(RowsOf(p)) = 1 /\ ~on(d, phase)) => NoEntry(with, d, phase)

\* a call has loaded one confirmed order with trays and soak hours whose sow
\* date and harvest date, different days, are in the window
C22_Witness ==
  \E p \in Procs :
    /\ pc[p] = "upsert"
    /\ Len(loaded[p]) = 1
    /\ loaded[p][1].status = "confirmed"
    /\ loaded[p][1].qty > 0
    /\ loaded[p][1].soakHours > 0
    /\ loaded[p][1].harvestDays > 1
    /\ loaded[p][1].deliveryDate - loaded[p][1].harvestDays \in Range(WindowDates(p))
    /\ loaded[p][1].deliveryDate - 1 \in Range(WindowDates(p))

\* C23: a non-packed, non-delivered order adds its quantity once to the
\* spray bucket of exactly the window dates in [sowDate, sowDate +
\* blackoutDays - 1] when blackoutDays > 0, and of no date when
\* blackoutDays = 0.
C23_SprayDays ==
  \A p \in Procs :
    InFlight(p) =>
      \A i \in Grown(p) :
        LET o       == RowsOf(p)[i]
            dates   == WindowDates(p)
            with    == Aggregate(RowsOf(p), dates)
            without == Aggregate(RemoveAt(RowsOf(p), i), dates)
            sowDate == IF o.harvestDays > 0 THEN o.deliveryDate - o.harvestDays
                       ELSE o.deliveryDate
            sprayed(d) ==
              /\ d \in Range(dates)
              /\ o.blackoutDays > 0
              /\ sowDate <= d /\ d <= sowDate + o.blackoutDays - 1
        IN  \A d \in DaysAround(dates) :
              /\ AddsExactly(with, without, o, d, "spray", IF sprayed(d) THEN o.qty ELSE 0)
              /\ sprayed(d) => HasEntry(with, o, d, "spray")
              /\ (Len(RowsOf(p)) = 1 /\ ~sprayed(d)) => NoEntry(with, d, "spray")

\* a call has loaded one confirmed order with trays and blackout days whose
\* sow date is in the window, and the window has a later day
C23_Witness ==
  \E p \in Procs :
    /\ pc[p] = "upsert"
    /\ Len(loaded[p]) = 1
    /\ loaded[p][1].status = "confirmed"
    /\ loaded[p][1].qty > 0
    /\ loaded[p][1].blackoutDays > 0
    /\ sowDateOf(loaded[p][1]) \in Range(WindowDates(p))
    /\ sowDateOf(loaded[p][1]) < WindowEnd(p)

\* C24: with lightsOnDate = sowDate + blackoutDays, a non-packed,
\* non-delivered order adds its quantity once to the lights_on bucket of
\* lightsOnDate exactly when lightsOnDate is in the window and lightsOnDate
\* <= harvestDate, and once to the water bucket of exactly the window dates
\* in [lightsOnDate, harvestDate], no date at all when lightsOnDate >
\* harvestDate.
C24_LightsOnAndWater ==
  \A p \in Procs :
    InFlight(p) =>
      \A i \in Grown(p) :
        LET o       == RowsOf(p)[i]
            dates   == WindowDates(p)
            with    == Aggregate(RowsOf(p), dates)
            without == Aggregate(RemoveAt(RowsOf(p), i), dates)
            sowDate == IF o.harvestDays > 0 THEN o.deliveryDate - o.harvestDays
                       ELSE o.deliveryDate
            harvestDate  == o.deliveryDate - 1
            lightsOnDate == sowDate + o.blackoutDays
            lit(d)     == d \in Range(dates) /\ d = lightsOnDate /\ lightsOnDate <= harvestDate
            watered(d) == d \in Range(dates) /\ lightsOnDate <= d /\ d <= harvestDate
        IN  \A d \in DaysAround(dates) :
              /\ AddsExactly(with, without, o, d, "lights_on", IF lit(d) THEN o.qty ELSE 0)
              /\ AddsExactly(with, without, o, d, "water", IF watered(d) THEN o.qty ELSE 0)
              /\ lit(d) => HasEntry(with, o, d, "lights_on")
              /\ watered(d) => HasEntry(with, o, d, "water")
              /\ (Len(RowsOf(p)) = 1 /\ ~lit(d)) => NoEntry(with, d, "lights_on")
              /\ (Len(RowsOf(p)) = 1 /\ ~watered(d)) => NoEntry(with, d, "water")
              /\ lightsOnDate > harvestDate => ~watered(d)

\* a call has loaded one confirmed order with trays and blackout days whose
\* lights-on date is in the window and not after its harvest date
C24_Witness ==
  \E p \in Procs :
    /\ pc[p] = "upsert"
    /\ Len(loaded[p]) = 1
    /\ loaded[p][1].status = "confirmed"
    /\ loaded[p][1].qty > 0
    /\ loaded[p][1].blackoutDays > 0
    /\ lightsOnDateOf(loaded[p][1]) \in Range(WindowDates(p))
    /\ lightsOnDateOf(loaded[p][1]) <= harvestDateOf(loaded[p][1])

\* every day an occurrence of a modelled order can fall on
AllDates == listDates(0 - 8, MaxDate + MaxDays + 9)

\* C25: the buckets the order loop builds with its in-window tests are the
\* buckets of the window's dates that it builds when no occurrence is
\* outside the window (a window holding every date of every order), and it
\* builds no bucket for a date outside the window.
C25_WindowTestsAreAFilter ==
  \A p \in Procs :
    InFlight(p) =>
      LET dates  == WindowDates(p)
          narrow == Aggregate(RowsOf(p), dates)
          wide   == Aggregate(RowsOf(p), AllDates)
      IN  /\ DOMAIN narrow \subseteq Range(dates)
          /\ \A d \in Range(dates) : BucketOf(narrow, d) = BucketOf(wide, d)

\* a call has loaded an order sown before the window and harvested in it
C25_Witness ==
  \E p \in Procs :
    /\ pc[p] = "upsert"
    /\ Len(loaded[p]) = 1
    /\ loaded[p][1].status = "confirmed"
    /\ loaded[p][1].qty > 0
    /\ sowDateOf(loaded[p][1]) < WindowStart(p)
    /\ harvestDateOf(loaded[p][1]) \in Range(WindowDates(p))
    /\ BucketOf(Aggregate(loaded[p], AllDates), sowDateOf(loaded[p][1])) # EmptyBucket

\* C26: a single order is in the spray bucket and in the water bucket of no
\* common date, whatever its harvest days and blackout days.
C26_SprayAndWaterDisjoint ==
  calc # Null =>
    \A d \in DOMAIN calc[1].byDay :
      /\ calc[1].byDay[d].summary["spray"] = EmptyMap \/ calc[1].byDay[d].summary["water"] = EmptyMap
      /\ calc[1].byDay[d].detail["spray"] = EmptyMap \/ calc[1].byDay[d].detail["water"] = EmptyMap

\* an order with more than one blackout day has been projected over a
\* window in which it is sprayed on one day and watered on another
C26_Witness ==
  /\ calc # Null
  /\ calc[1].o.blackoutDays > 1
  /\ \E d, e \in DOMAIN calc[1].byDay :
       /\ calc[1].byDay[d].summary["spray"] # EmptyMap
       /\ calc[1].byDay[e].summary["water"] # EmptyMap

\* the order of the table that row i of the orders query was read from has
\* no variety, or a variety with a missing number
MissingNumbers(row) ==
  \/ row.variety_id = Null
  \/ row.variety_id[1] \notin DOMAIN VarietiesTable
  \/ \E f \in {"soak_hours", "blackout_days", "harvest_days"} :
       VarietiesTable[row.variety_id[1]][f] = Null

\* C27: a call over an order without variety, or of a variety whose soak
\* hours, blackout days and harvest days are missing, returns without an
\* error; the order counts with 0 for each missing number: when it is not
\* packed it is sown on its delivery date, it is in no soak and no spray
\* bucket, and it is in the deliver bucket of its delivery date, each when
\* that date is in the window.
C27_MissingNumbersAreZero ==
  \A p \in Procs :
    /\ (calls > 0 /\ ~InFlight(p) /\ p = 1) => result[p] = "ok"
    /\ InFlight(p) =>
         \A i \in 1..Len(RowsOf(p)) :
           LET o       == RowsOf(p)[i]
               dates   == WindowDates(p)
               with    == Aggregate(RowsOf(p), dates)
               without == Aggregate(RemoveAt(RowsOf(p), i), dates)
               due     == o.deliveryDate
               inWin   == due \in Range(dates)
               grown   == o.status # "packed"
           IN  MissingNumbers(orders[o.id]) =>
                 /\ o.soakHours = 0 /\ o.blackoutDays = 0 /\ o.harvestDays = 0
                 /\ AddsExactly(with, without, o, due, "sow", IF inWin /\ grown THEN o.qty ELSE 0)
                 /\ (inWin /\ grown) => HasEntry(with, o, due, "sow")
                 /\ AddsExactly(with, without, o, due, "deliver", IF inWin THEN o.qty ELSE 0)
                 /\ inWin => HasEntry(with, o, due, "deliver")
                 /\ \A d \in DaysAround(dates) :
                      /\ AddsExactly(with, without, o, d, "soak", 0)
                      /\ AddsExactly(with, without, o, d, "spray", 0)
                      /\ d # due => AddsExactly(with, without, o, d, "sow", 0)
                      /\ Len(RowsOf(p)) = 1 => (NoEntry(with, d, "soak") /\ NoEntry(with, d, "spray"))

\* a call over one confirmed order with trays and without a variety has
\* returned, and the store holds the sow and the deliver rows of its
\* delivery date
C27_Witness ==
  /\ calls > 0 /\ pc[1] = "idle" /\ result[1] = "ok"
  /\ DOMAIN orders = {OrderIdSeq[1]}
  /\ orders[OrderIdSeq[1]].variety_id = Null
  /\ orders[OrderIdSeq[1]].status = "confirmed"
  /\ orders[OrderIdSeq[1]].quantity = Some(MaxQty)
  /\ \A ph \in {"sow", "deliver"} :
       \E r \in GeneratedRows(tasks) :
         r.phase = ph /\ r.due_date = orders[OrderIdSeq[1]].delivery_date

\* C28: in every day bucket and for every phase, the quantities of the
\* summary map and the quantities of the detail map have the same sum, and
\* in the deliver maps every customer's quantity is the sum of the
\* customer's variety breakdown.
C28_SummaryDetailBreakdownAgree ==
  \A p \in Procs :
    InFlight(p) =>
      LET byDay == Aggregate(RowsOf(p), WindowDates(p))
      IN  \A d \in DOMAIN byDay :
            /\ \A ph \in Phases :
                 MapTotal(byDay[d].summary[ph]) = MapTotal(byDay[d].detail[ph])
            /\ DOMAIN byDay[d].deliverBreakdown = DOMAIN byDay[d].detail["deliver"]
            /\ \A c \in DOMAIN byDay[d].detail["deliver"] :
                 byDay[d].detail["deliver"][c] = MapTotal(byDay[d].deliverBreakdown[c])

\* a call has loaded two orders with trays of one customer and one variety
\* delivered on the same day of the window
C28_Witness ==
  \E p \in Procs :
    /\ pc[p] = "upsert"
    /\ Len(loaded[p]) = 2
    /\ loaded[p][1].qty > 0 /\ loaded[p][2].qty > 0
    /\ loaded[p][1].customerName = loaded[p][2].customerName
    /\ loaded[p][1].varietyName = loaded[p][2].varietyName
    /\ loaded[p][1].deliveryDate = loaded[p][2].deliveryDate
    /\ loaded[p][1].deliveryDate \in Range(WindowDates(p))

(* ----------------------- statuses set on the board -------------------- *)

\* C29: when a call returns without an error, every generated row of the
\* store with dueDate in the call's window has status "planned", whatever
\* status the task board gave a row of that date, phase and kind before.
C29_SyncResetsStatus ==
  [][\A p \in Procs :
       (InFlight(p) /\ pc'[p] = "idle" /\ result'[p] = "ok") =>
         \A r \in GeneratedRows(tasks') :
           InWindow(r.due_date, WindowStart(p), WindowEnd(p)) => r.status = "planned"]_vars

====
